---- MODULE Spec2Model ----
(***************************************************************************)
(* Model of the fuzzing-decision pool engine of orion:                     *)
(*   services/fuzzing-decision/src/fuzzing_decision/decision/pool.py       *)
(*                                                                         *)
(* Part 1 (SpecCancel): cancel_tasks, the task cancellation sweep.         *)
(* Part 2 (SpecTasks):  PoolConfiguration.build_tasks, the task graph      *)
(*                      generator.                                         *)
(* Part 3 (SpecResources): build_resources of PoolConfiguration and of     *)
(*                      PoolConfigMap (worker pool, hook and role).        *)
(* Part 4 (SpecMapTasks): PoolConfigMap.build_tasks.                       *)
(* Part 5 (SpecLoader): PoolConfigLoader.from_file.                        *)
(*                                                                         *)
(* and of the crash listing of grizzly-reduce-monitor:                     *)
(*   services/grizzly-reduce-monitor/src/grizzly_reduce_monitor/common.py  *)
(*                                                                         *)
(* Part 6 (SpecListObjs): CrashManager._list_objs.                         *)
(*                                                                         *)
(* and of its monitor:                                                     *)
(*   services/grizzly-reduce-monitor/src/grizzly_reduce_monitor/monitor.py *)
(*                                                                         *)
(* Part 7 (SpecMonitor): ReductionMonitor.run with the crash selection of  *)
(*                      _filter_reducing_unbucketed and                    *)
(*                      _get_unique_crashes.                               *)
(* Part 8 (SpecImage):  ReductionMonitor.image_artifact_task.              *)
(***************************************************************************)
EXTENDS Integers, Sequences, FiniteSets, TLC

None == "None"

\* Python's None where the other values are records or dicts
PyNone == [none |-> TRUE]

(***************************************************************************)
(* Bounds of the model.                                                    *)
(***************************************************************************)
\* firings returned by one hooks.listLastFires call
MaxFires == 2
\* queue.listTaskGroup calls made in one sweep
MaxCalls == 2
\* tasks in one listTaskGroup response
MaxPageLen == 1
\* tasks returned by the queue over one whole sweep
MaxTasks == 2
\* the "tasks" field of a pool
MaxPoolTasks == 2
\* the "tasks" field of a pool whose resources are built
MaxResourceTasks == 3
\* target pools of a pool map (its apply_to list)
MaxTargets == 2

(***************************************************************************)
(* Part 1: cancel_tasks                                                    *)
(***************************************************************************)
VARIABLES
    pc,                 \* position of cancel_tasks
    self_task_id,       \* os.getenv("TASK_ID"), None when unset
    lastFires,          \* hooks.listLastFires(...)["lastFires"]
    fireIdx,            \* firings the generator's for loop has taken
    continuationToken,  \* result.get("continuationToken") of the last page
    tasks_to_cancel,    \* the list built by the selection loop
    exc,                \* the failure that left cancel_tasks, NoExc if none
    \* history of the calls made to the services
    listCalls,          \* queue.listTaskGroup calls: group, token passed, outcome
    served,             \* every task the queue returned, in order
    candidates,         \* every (task, scheduled) pair the selection loop received
    cancelCalls,        \* queue.cancelTask calls: task id and whether it succeeded
    failures            \* every failure raised by hooks or queue listing calls

cancelVars == <<pc, self_task_id, lastFires, fireIdx, continuationToken,
                tasks_to_cancel, exc, listCalls, served, candidates,
                cancelCalls, failures>>

(***************************************************************************)
(* Part 2: PoolConfiguration.build_tasks (state)                           *)
(***************************************************************************)
VARIABLES
    gen,                \* position of the build_tasks generator
    pool,               \* self: the flattened PoolConfiguration
    parent_task_id,     \* argument of build_tasks
    env,                \* argument of build_tasks
    now,                \* datetime.utcnow() taken at the start
    deps,               \* the list shared by the work tasks as "dependencies"
    preprocess,         \* self.create_preprocess()
    loop_i,             \* i, the variable of the work task loop, 0 before it
    slugs,              \* the ids slugId() has returned so far
    emitted             \* the (task_id, task) pairs yielded so far

(***************************************************************************)
(* Part 3: build_resources of PoolConfiguration and PoolConfigMap (state)  *)
(***************************************************************************)
VARIABLES
    poolmap,            \* self when it is a PoolConfigMap, PyNone otherwise
    res,                \* position of build_resources
    resources           \* the list build_resources returned, PyNone before

resVars == <<poolmap, res, resources>>

taskVars == <<gen, pool, parent_task_id, env, now, deps, preprocess, loop_i,
              slugs, emitted, resVars>>

(***************************************************************************)
(* Part 4: PoolConfigMap.build_tasks (state)                               *)
(***************************************************************************)
VARIABLES
    pool_i              \* targets the loop over self.iterpools() has taken

mapVars == <<pool_i>>

\* PoolConfigMap.build_tasks is not running
MapIdle == pool_i = 0

(***************************************************************************)
(* Part 5: PoolConfigLoader.from_file (state)                              *)
(***************************************************************************)
VARIABLES
    pool_yml,           \* the file: whether it is a file, the keys of its document
    loaded,             \* the class of the object from_file returned, None before
    load_exc            \* the error from_file raised, None if none

loaderVars == <<pool_yml, loaded, load_exc>>

\* from_file is not called
LoaderIdle == pool_yml = PyNone /\ loaded = None /\ load_exc = None

(***************************************************************************)
(* Part 6: CrashManager._list_objs (state)                                 *)
(***************************************************************************)
VARIABLES
    listing,            \* position of the _list_objs generator
    list_call,          \* self (server settings) and the arguments of the call
    params,             \* params, PyNone once it is None
    next_url,           \* next_url
    requests,           \* history of self.get calls: url and params
    responses,          \* history of the decoded responses
    yielded             \* the records yielded so far

listVars == <<listing, list_call, params, next_url, requests, responses, yielded>>

\* _list_objs is not called
ListIdle ==
    /\ listing = "idle"
    /\ list_call = PyNone
    /\ params = PyNone
    /\ next_url = None
    /\ requests = <<>>
    /\ responses = <<>>
    /\ yielded = <<>>

(***************************************************************************)
(* Part 7: ReductionMonitor (state)                                        *)
(***************************************************************************)
VARIABLES
    mon,                \* position of run(), or of the monitor instance
    dry_run,            \* self.dry_run
    crash_table,        \* the crashes the crash-tracking service holds
    arrived,            \* what _fuzzmanager_get_crashes yielded in this poll
    filtered,           \* what _filter_reducing_unbucketed yields, in order
    fpos,               \* crashes _get_unique_crashes has taken from filtered
    seen,               \* seen, the set of signatures
    randomize_crashes,  \* randomize_crashes, in insertion order
    rpos,               \* items the last loop of _get_unique_crashes has taken
    selected,           \* the (sig, crash) pairs _get_unique_crashes yielded
    calls,              \* history of the calls made to the services
    image_tasks         \* self._gw_image_artifact_tasks

monitorVars == <<mon, dry_run, crash_table, arrived, filtered, fpos, seen,
                 randomize_crashes, rpos, selected, calls, image_tasks>>

\* no ReductionMonitor exists
MonitorIdle ==
    /\ mon = "idle"
    /\ dry_run = FALSE
    /\ crash_table = <<>>
    /\ arrived = <<>>
    /\ filtered = <<>>
    /\ fpos = 0
    /\ seen = {}
    /\ randomize_crashes = <<>>
    /\ rpos = 0
    /\ selected = <<>>
    /\ calls = <<>>
    /\ image_tasks = <<>>

\* the variables of the parts after part 3
extVars == <<mapVars, loaderVars, listVars, monitorVars>>

\* none of the parts after part 3 is running
ExtIdle == MapIdle /\ LoaderIdle /\ ListIdle /\ MonitorIdle

vars == <<cancelVars, taskVars, extVars>>

\* run states of a task (comment of the selection loop)
RunStates == {"pending", "running", "completed", "failed", "exception"}

\* task["status"]["runs"], as the sequence of the runs' states
RunLists ==
    { <<>>, <<"pending">>, <<"running">>, <<"completed">>, <<"failed">>,
      <<"exception">>, <<"exception", "running">>, <<"failed", "completed">> }

SelfId == "decisionTask"

TaskIds == {SelfId, "fuzzTask"}

\* a task of a listTaskGroup response: task["status"]
Tasks == [taskId : TaskIds, runs : RunLists]

\* an entry of listLastFires; its taskId (the task group of the firing) is
\* its position in the list
FireKinds == [result : {"success", "error"}, firedBy : {"schedule", "triggerHook"}]

FireLists ==
    UNION { [1..n -> FireKinds] : n \in 0..MaxFires }

\* result.get("continuationToken") of a response that carries none
NoToken == 0

\* the continuation token of the response to the n-th listTaskGroup call of a
\* sweep, when that response has one: an opaque value, new with every response
TokenOf(n) == n

NoSuchHook == "No such hook"
NoTaskGroup == "No task-group with taskGroupId"

\* failures of a service call: the exception class and what its text contains.
\* The two texts the code looks for come in error replies of the services,
\* which are TaskclusterRestFailure; any other TaskclusterFailure (connection,
\* authentication) carries another text.
Failures ==
    [cls : {"TaskclusterRestFailure"}, msg : {NoSuchHook, NoTaskGroup, "other"}]
      \cup [cls : {"TaskclusterFailure"}, msg : {"other"}]

\* no failure has left cancel_tasks
NoExc == [cls |-> None, msg |-> None]

\* except TaskclusterRestFailure (TaskclusterRestFailure derives from
\* TaskclusterFailure)
IsRestFailure(f) == f.cls = "TaskclusterRestFailure"

\* mutant: the outer handler re-raises whatever it catches
OuterHandler_AlwaysRaise(f) == "raise"

\* mutant: the outer handler swallows every TaskclusterRestFailure
OuterHandler_SwallowRest(f) ==
    IF IsRestFailure(f) THEN "return" ELSE "raise"

\* the handler around the whole generator body: "return" or "raise"
OuterHandler(f) ==
    IF IsRestFailure(f) /\ f.msg = NoSuchHook THEN "return" ELSE "raise"

\* the handler around the first listTaskGroup call of a firing
FirstPageHandler(f) ==
    IF f.msg = NoTaskGroup THEN "continue" ELSE OuterHandler(f)

\* a continuation call is made outside the inner try
NextPageHandler(f) == OuterHandler(f)

\* mutant: any run at all makes a task a candidate for cancellation
HasActiveRun_AnyRun(runs) == runs # <<>>

\* any(run["state"] in {"pending", "running"} for run in task["status"]["runs"])
HasActiveRun(runs) ==
    \E i \in 1..Len(runs) : runs[i] \in {"pending", "running"}

\* mutant: the yield after the while loop is missing, so the tasks of the page
\* without a continuation token are dropped
YieldFrom_DropLastPage(result, fire) ==
    IF result.continuationToken = NoToken THEN <<>>
    ELSE [i \in 1..Len(result.tasks) |->
            [task |-> result.tasks[i], scheduled |-> fire.firedBy = "schedule"]]

\* yield from [(task, fire["firedBy"] == "schedule") for task in result["tasks"]]
\* (after either listTaskGroup call: inside the while loop for a page that
\* carries a token, after the loop for the page that carries none)
YieldFrom(result, fire) ==
    [i \in 1..Len(result.tasks) |->
        [task |-> result.tasks[i], scheduled |-> fire.firedBy = "schedule"]]

\* while result.get("continuationToken"): another listTaskGroup call, else the
\* next firing
HasMorePages(result) == result.continuationToken # NoToken

\* mutant: the self task is skipped whatever fired its firing
SelectionStep_NoScheduledAbort(pair, self, acc) ==
    LET got == [acc EXCEPT !.taken = @ + 1]
    IN  IF pair.task.taskId = self
        THEN got
        ELSE IF \E i \in 1..Len(pair.task.runs) : pair.task.runs[i] \in {"pending", "running"}
             THEN [got EXCEPT !.cancel = Append(@, pair.task.taskId)]
             ELSE got

\* mutant: the self task is selected like any other task unless scheduled
SelectionStep_SelfNotSkipped(pair, self, acc) ==
    LET got == [acc EXCEPT !.taken = @ + 1]
    IN  IF pair.task.taskId = self /\ pair.scheduled
        THEN [got EXCEPT !.abort = TRUE]
        ELSE IF \E i \in 1..Len(pair.task.runs) : pair.task.runs[i] \in {"pending", "running"}
             THEN [got EXCEPT !.cancel = Append(@, pair.task.taskId)]
             ELSE got

\* mutant: any task of a firing fired by the schedule ends the sweep
SelectionStep_ScheduledAborts(pair, self, acc) ==
    LET got == [acc EXCEPT !.taken = @ + 1]
    IN  IF pair.scheduled
        THEN [got EXCEPT !.abort = TRUE]
        ELSE IF pair.task.taskId = self
             THEN got
             ELSE IF \E i \in 1..Len(pair.task.runs) : pair.task.runs[i] \in {"pending", "running"}
                  THEN [got EXCEPT !.cancel = Append(@, pair.task.taskId)]
                  ELSE got

\* The body of the selection loop for one (task, scheduled) pair.  acc.cancel
\* is tasks_to_cancel, acc.taken the pairs received so far, acc.abort whether
\* the loop returned from cancel_tasks.
SelectionStep(pair, self, acc) ==
    LET task_id == pair.task.taskId
        got == [acc EXCEPT !.taken = @ + 1]
    IN  IF task_id = self
        THEN IF pair.scheduled
             THEN [got EXCEPT !.abort = TRUE]
             ELSE got
        ELSE IF HasActiveRun(pair.task.runs)
             THEN [got EXCEPT !.cancel = Append(@, task_id)]
             ELSE got

\* the selection loop over the pairs the generator yields for one page
RECURSIVE SelectFrom(_, _, _)
SelectFrom(pairs, self, acc) ==
    IF pairs = <<>> \/ acc.abort THEN acc
    ELSE SelectFrom(Tail(pairs), self, SelectionStep(Head(pairs), self, acc))

\* responses of listTaskGroup that fit what is left of the bounds
Pages(n) == UNION { [1..k -> Tasks] : k \in 0..n }

PageRoom == IF MaxTasks - Len(served) < MaxPageLen
            THEN MaxTasks - Len(served) ELSE MaxPageLen

\* history entries
ServedOf(tasks, group) ==
    [i \in 1..Len(tasks) |->
        [taskId |-> tasks[i].taskId,
         active |-> \E j \in 1..Len(tasks[i].runs) :
                        tasks[i].runs[j] = "pending" \/ tasks[i].runs[j] = "running",
         group |-> group]]

TakenOf(pairs, n) ==
    [i \in 1..n |-> [taskId |-> pairs[i].task.taskId, scheduled |-> pairs[i].scheduled]]

\* build_tasks is not running
TasksIdle ==
    /\ gen = "idle"
    /\ pool = PyNone
    /\ parent_task_id = None
    /\ env = PyNone
    /\ now = 0
    /\ deps = <<>>
    /\ preprocess = PyNone
    /\ loop_i = 0
    /\ slugs = {}
    /\ emitted = <<>>
    /\ poolmap = PyNone
    /\ res = "idle"
    /\ resources = PyNone

\* cancel_tasks is not running
CancelIdle ==
    /\ pc = "idle"
    /\ self_task_id = None
    /\ lastFires = <<>>
    /\ fireIdx = 0
    /\ continuationToken = NoToken
    /\ tasks_to_cancel = <<>>
    /\ exc = NoExc
    /\ listCalls = <<>>
    /\ served = <<>>
    /\ candidates = <<>>
    /\ cancelCalls = <<>>
    /\ failures = <<>>

CancelInit ==
    /\ pc = "listLastFires"
    /\ self_task_id \in {None, SelfId}
    /\ lastFires = <<>>
    /\ fireIdx = 0
    /\ continuationToken = NoToken
    /\ tasks_to_cancel = <<>>
    /\ exc = NoExc
    /\ listCalls = <<>>
    /\ served = <<>>
    /\ candidates = <<>>
    /\ cancelCalls = <<>>
    /\ failures = <<>>

\* what a failure of a listing call does to the sweep
Fail(op, f, handler) ==
    /\ failures' = Append(failures, [op |-> op, cls |-> f.cls, msg |-> f.msg])
    /\ continuationToken' = NoToken
    /\ CASE handler = "continue" ->
                /\ pc' = "forFire"
                /\ fireIdx' = fireIdx + 1
                /\ exc' = NoExc
         [] handler = "return" ->
                /\ pc' = "cancel"
                /\ UNCHANGED fireIdx
                /\ exc' = NoExc
         [] OTHER ->
                /\ pc' = "raised"
                /\ UNCHANGED fireIdx
                /\ exc' = f
    /\ UNCHANGED <<self_task_id, lastFires, tasks_to_cancel, served,
                   candidates, cancelCalls>>

\* a page arrived: the generator yields its tasks to the selection loop,
\* then goes on to the next page or the next firing
TakePage(result, fire) ==
    LET pairs == YieldFrom(result, fire)
        acc == SelectFrom(pairs, self_task_id,
                          [cancel |-> tasks_to_cancel, taken |-> 0, abort |-> FALSE])
    IN  /\ served' = served \o ServedOf(result.tasks, fire.taskId)
        /\ candidates' = candidates \o TakenOf(pairs, acc.taken)
        /\ tasks_to_cancel' = acc.cancel
        /\ continuationToken' = result.continuationToken
        /\ IF acc.abort
           THEN /\ pc' = "returned"
                /\ UNCHANGED fireIdx
           ELSE IF HasMorePages(result)
           THEN /\ pc' = "nextPage"
                /\ UNCHANGED fireIdx
           ELSE /\ pc' = "forFire"
                /\ fireIdx' = fireIdx + 1
        /\ UNCHANGED <<self_task_id, lastFires, exc, cancelCalls, failures>>

\* the responses listTaskGroup can give to the next call
Results ==
    [tasks : Pages(PageRoom),
     continuationToken : {NoToken, TokenOf(Len(listCalls) + 1)}]

\* the firings the generator expands: not (fire["result"] != "success")
IsSuccess(fire) == fire.result = "success"

\* hooks.listLastFires(HOOK_PREFIX, hook_id) answers
ListLastFires ==
    /\ UNCHANGED <<taskVars, extVars>>
    /\ pc = "listLastFires"
    /\ \E fires \in FireLists :
          lastFires' = [i \in 1..Len(fires) |->
                           [taskId |-> i, result |-> fires[i].result,
                            firedBy |-> fires[i].firedBy]]
    /\ pc' = "forFire"
    /\ UNCHANGED <<self_task_id, fireIdx, continuationToken, tasks_to_cancel, exc,
                   listCalls, served, candidates, cancelCalls, failures>>

\* hooks.listLastFires raises
ListLastFiresFails ==
    /\ UNCHANGED <<taskVars, extVars>>
    /\ pc = "listLastFires"
    /\ \E f \in Failures : Fail("listLastFires", f, OuterHandler(f))
    /\ UNCHANGED listCalls

\* if fire["result"] != "success": continue
SkipFire ==
    /\ UNCHANGED <<taskVars, extVars>>
    /\ pc = "forFire"
    /\ fireIdx < Len(lastFires)
    /\ ~IsSuccess(lastFires[fireIdx + 1])
    /\ fireIdx' = fireIdx + 1
    /\ UNCHANGED <<pc, self_task_id, lastFires, continuationToken, tasks_to_cancel,
                   exc, listCalls, served, candidates, cancelCalls, failures>>

\* queue.listTaskGroup(fire["taskId"]) answers
ListFirstPage ==
    /\ UNCHANGED <<taskVars, extVars>>
    /\ pc = "forFire"
    /\ fireIdx < Len(lastFires)
    /\ IsSuccess(lastFires[fireIdx + 1])
    /\ Len(listCalls) < MaxCalls
    /\ \E result \in Results :
          /\ listCalls' = Append(listCalls,
                [group |-> lastFires[fireIdx + 1].taskId, token |-> NoToken,
                 ok |-> TRUE, next |-> result.continuationToken])
          /\ TakePage(result, lastFires[fireIdx + 1])

\* queue.listTaskGroup(fire["taskId"]) raises
ListFirstPageFails ==
    /\ UNCHANGED <<taskVars, extVars>>
    /\ pc = "forFire"
    /\ fireIdx < Len(lastFires)
    /\ IsSuccess(lastFires[fireIdx + 1])
    /\ Len(listCalls) < MaxCalls
    /\ \E f \in Failures :
          /\ listCalls' = Append(listCalls,
                [group |-> lastFires[fireIdx + 1].taskId, token |-> NoToken,
                 ok |-> FALSE, next |-> NoToken])
          /\ Fail("listTaskGroup", f, FirstPageHandler(f))

\* queue.listTaskGroup(fire["taskId"], query={"continuationToken": ...}) answers
ListNextPage ==
    /\ UNCHANGED <<taskVars, extVars>>
    /\ pc = "nextPage"
    /\ Len(listCalls) < MaxCalls
    /\ \E result \in Results :
          /\ listCalls' = Append(listCalls,
                [group |-> lastFires[fireIdx + 1].taskId,
                 token |-> continuationToken,
                 ok |-> TRUE, next |-> result.continuationToken])
          /\ TakePage(result, lastFires[fireIdx + 1])

\* the continuation call raises
ListNextPageFails ==
    /\ UNCHANGED <<taskVars, extVars>>
    /\ pc = "nextPage"
    /\ Len(listCalls) < MaxCalls
    /\ \E f \in Failures :
          /\ listCalls' = Append(listCalls,
                [group |-> lastFires[fireIdx + 1].taskId,
                 token |-> continuationToken,
                 ok |-> FALSE, next |-> NoToken])
          /\ Fail("listTaskGroup", f, NextPageHandler(f))

\* the generator is exhausted: the selection loop ends
DiscoveryDone ==
    /\ UNCHANGED <<taskVars, extVars>>
    /\ pc = "forFire"
    /\ fireIdx = Len(lastFires)
    /\ pc' = "cancel"
    /\ UNCHANGED <<self_task_id, lastFires, fireIdx, continuationToken,
                   tasks_to_cancel, exc, listCalls, served, candidates,
                   cancelCalls, failures>>

\* mutant: a cancelTask failure leaves cancel_tasks
AfterCancelFailure_Raise == "raised"

\* except Exception: LOG.exception(...): the cancellation loop goes on
AfterCancelFailure == "cancel"

\* one turn of: for task_id in tasks_to_cancel: try: queue.cancelTask(task_id)
CancelTask ==
    /\ UNCHANGED <<taskVars, extVars>>
    /\ pc = "cancel"
    /\ Len(cancelCalls) < Len(tasks_to_cancel)
    /\ \E ok \in BOOLEAN :
          /\ cancelCalls' = Append(cancelCalls,
                [taskId |-> tasks_to_cancel[Len(cancelCalls) + 1], ok |-> ok])
          /\ pc' = IF ok THEN "cancel" ELSE AfterCancelFailure
    /\ UNCHANGED <<self_task_id, lastFires, fireIdx, continuationToken,
                   tasks_to_cancel, exc, listCalls, served, candidates, failures>>

\* the cancellation loop is over: cancel_tasks returns
CancelDone ==
    /\ UNCHANGED <<taskVars, extVars>>
    /\ pc = "cancel"
    /\ Len(cancelCalls) = Len(tasks_to_cancel)
    /\ pc' = "returned"
    /\ UNCHANGED <<self_task_id, lastFires, fireIdx, continuationToken,
                   tasks_to_cancel, exc, listCalls, served, candidates,
                   cancelCalls, failures>>

CancelNext ==
    \/ ListLastFires
    \/ ListLastFiresFails
    \/ SkipFire
    \/ ListFirstPage
    \/ ListFirstPageFails
    \/ ListNextPage
    \/ ListNextPageFails
    \/ DiscoveryDone
    \/ CancelTask
    \/ CancelDone

\* the state when cancel_tasks(worker_type) is called
InitCancel == CancelInit /\ TasksIdle /\ ExtIdle

SpecCancel == InitCancel /\ [][CancelNext]_vars

(***************************************************************************)
(* Part 2: PoolConfiguration.build_tasks                                   *)
(***************************************************************************)
\* fromNow("1 week", now) - now, in seconds
Week == 604800

\* DECISION_TASK_SECRET
DECISION_TASK_SECRET == "project/fuzzing/decision"

\* max_run_time values, in seconds: "30s", "1h", "2w"
RunTimes == {30, 3600, 1209600}

Containers == {"MozillaSecurity/fuzzer:latest"}

\* DOCKER_WORKER_DEVICES
DOCKER_WORKER_DEVICES ==
    {"cpu", "hostSharedMemory", "loopbackAudio", "loopbackVideo", "kvm"}

\* f"docker-worker:capability:device:{device}"
DeviceScope(device) == "docker-worker:capability:device:" \o device

PrivilegedScope == "docker-worker:capability:privileged"

\* f"secrets:get:{DECISION_TASK_SECRET}"
SecretScope == "secrets:get:" \o DECISION_TASK_SECRET

\* a scope that names a device docker-worker does not know
UnknownDeviceScope == "docker-worker:capability:device:gpu"

\* the scopes list of a flattened pool
ScopeLists ==
    { <<>>,
      <<PrivilegedScope, DeviceScope("kvm")>>,
      <<DeviceScope("loopbackVideo")>>,
      <<SecretScope>>,
      <<UnknownDeviceScope>> }

\* the key of the log directory in every artifact map
LogsArtifact == "project/fuzzing/private/logs"

\* an empty dict
EmptyDict == [k \in {} |-> TRUE]

\* the artifacts of a flattened pool: local path -> {url, type}; the remote
\* names (url) of a pool are distinct and none is the name of the log directory
ArtifactDecls ==
    { EmptyDict,
      "/some-file.txt" :> [url |-> "project/fuzzing/private/file.txt", type |-> "file"],
      ("/some-file.txt" :> [url |-> "project/fuzzing/private/file.txt", type |-> "file"])
        @@ ("/var/log/" :> [url |-> "project/fuzzing/private/var-log", type |-> "directory"]) }

\* what a pool declares for its tasks: scopes and artifacts
Declarations ==
    { [scopes |-> s, artifacts |-> EmptyDict] : s \in ScopeLists }
      \cup { [scopes |-> <<>>, artifacts |-> a] : a \in ArtifactDecls }

\* the preprocess sub-configurations a pool can declare
PreprocessDecls ==
    { [max_run_time |-> 30, container |-> c, scopes |-> <<>>, artifacts |-> EmptyDict]
        : c \in Containers }
      \cup
    { [max_run_time |-> 3600, container |-> c, scopes |-> <<DeviceScope("kvm")>>,
       artifacts |-> "/some-file.txt" :>
                        [url |-> "project/fuzzing/private/file.txt", type |-> "file"]]
        : c \in Containers }

\* cycle_time of the pools whose tasks are built: "1h"
TaskCycleTime == 3600

\* flattened pool configurations
Pools ==
    { [pool_id |-> "pool1", platform |-> "linux", cloud |-> "aws", tasks |-> t,
       max_run_time |-> r, cycle_time |-> TaskCycleTime, container |-> c,
       scopes |-> d.scopes,
       artifacts |-> d.artifacts, preprocess |-> p]
        : t \in 1..MaxPoolTasks, r \in RunTimes, c \in Containers,
          d \in Declarations, p \in {PyNone} \cup PreprocessDecls }

\* the env argument: None, or a dict of extra variables
Envs ==
    { PyNone,
      [EXTRA |-> "1"],
      [TASKCLUSTER_SECRET |-> "other/secret"],
      [TASKCLUSTER_FUZZING_PREPROCESS |-> "1"] }

\* ids slugId() can return
SlugIds == {"slugA", "slugB", "slugC", "slugD"}

\* datetime.utcnow(), in seconds
Nows == {1000, 2000}

\* self.create_preprocess(): the configuration of the preprocess stage of a
\* pool that declares one, None for a pool that declares none
CreatePreprocess(p) == p.preprocess

\* PoolConfiguration.task_id: f"{self.platform}-{self.pool_id}"
TaskIdOf(p) == p.platform \o "-" \o p.pool_id

\* set(task["payload"]["env"]).isdisjoint(set(env))
IsDisjoint(d, e) == DOMAIN d \cap DOMAIN e = {}

\* dict.update
Update(d, e) ==
    [k \in DOMAIN d \cup DOMAIN e |-> IF k \in DOMAIN e THEN e[k] ELSE d[k]]

\* mutant: env is not checked against the reserved keys
EnvAccepted_NoAssert(reserved) == TRUE

\* if env is not None: assert ...isdisjoint...; the assertion holds
EnvAccepted(reserved) == env = PyNone \/ IsDisjoint(reserved, env)

\* task["payload"]["env"] after: if env is not None: ...update(env)
FinalEnv(reserved) == IF env = PyNone THEN reserved ELSE Update(reserved, env)

\* payload env of the preprocess task before the update
PreprocessEnv ==
    [TASKCLUSTER_FUZZING_POOL |-> pool.pool_id,
     TASKCLUSTER_SECRET |-> DECISION_TASK_SECRET,
     TASKCLUSTER_FUZZING_PREPROCESS |-> "1"]

\* payload env of a work task before the update
WorkEnv ==
    [TASKCLUSTER_FUZZING_POOL |-> pool.pool_id,
     TASKCLUSTER_SECRET |-> DECISION_TASK_SECRET]

\* mutant: the entry of the log directory is left out
artifact_map_NoLogs(artifacts, expires) ==
    [u \in {artifacts[local_path].url : local_path \in DOMAIN artifacts} |->
        LET local_path == CHOOSE l \in DOMAIN artifacts : artifacts[l].url = u
        IN  [expires |-> expires, path |-> local_path,
             type |-> artifacts[local_path].type]]

\* self.artifact_map(expires): an entry per declared artifact under its remote
\* name, then the entry of the log directory
artifact_map(artifacts, expires) ==
    LET urls == {artifacts[local_path].url : local_path \in DOMAIN artifacts}
        PathOf(u) == CHOOSE local_path \in DOMAIN artifacts : artifacts[local_path].url = u
    IN  [u \in urls \cup {LogsArtifact} |->
            IF u = LogsArtifact
            THEN [expires |-> expires, path |-> "/logs/", type |-> "directory"]
            ELSE [expires |-> expires, path |-> PathOf(u),
                  type |-> artifacts[PathOf(u)].type]]

\* set(task["scopes"])
ScopeSet(scopes) == {scopes[i] : i \in 1..Len(scopes)}

\* mutant: the privileged scope also grants the cpu device
CapabilitiesFor_PrivilegedGrantsCpu(capabilities, scopes) ==
    LET granted == {d \in DOCKER_WORKER_DEVICES : DeviceScope(d) \in ScopeSet(scopes)}
                     \cup (IF PrivilegedScope \in ScopeSet(scopes) THEN {"cpu"} ELSE {})
        keys == (IF granted # {} THEN {"devices"} ELSE {})
                  \cup (IF PrivilegedScope \in ScopeSet(scopes) THEN {"privileged"} ELSE {})
    IN  [k \in keys |-> IF k = "devices" THEN [d \in granted |-> TRUE] ELSE TRUE]

\* the body of add_capabilities_for_scopes: task["payload"]["capabilities"]
\* when it returns
CapabilitiesFor(capabilities, scopes) ==
    LET \* capabilities.setdefault("devices", {})
        before == IF "devices" \in DOMAIN capabilities
                  THEN capabilities["devices"] ELSE EmptyDict
        granted == {d \in DOCKER_WORKER_DEVICES : DeviceScope(d) \in ScopeSet(scopes)}
        \* capabilities["devices"][device] = True
        devices == [d \in DOMAIN before \cup granted |->
                        IF d \in granted THEN TRUE ELSE before[d]]
        privileged == PrivilegedScope \in ScopeSet(scopes)
        \* if not capabilities["devices"]: del capabilities["devices"]
        keys == (DOMAIN capabilities \ {"devices"})
                  \cup (IF DOMAIN devices # {} THEN {"devices"} ELSE {})
                  \cup (IF privileged THEN {"privileged"} ELSE {})
    IN  [k \in keys |->
            IF k = "devices" THEN devices
            ELSE IF k = "privileged" /\ privileged THEN TRUE
            ELSE capabilities[k]]

\* add_capabilities_for_scopes(task)
add_capabilities_for_scopes(task) ==
    [task EXCEPT !.payload.capabilities = CapabilitiesFor(@, task.scopes)]

\* what follows the dict literal of a task: add_capabilities_for_scopes(task),
\* then task["payload"]["env"].update(env) when env is not None
Completed(task) ==
    [add_capabilities_for_scopes(task) EXCEPT !.payload.env = FinalEnv(@)]

\* scopes + [f"secrets:get:{DECISION_TASK_SECRET}"]
TaskScopes(scopes) == scopes \o <<SecretScope>>

\* the preprocess task descriptor (the dict literal)
PreprocessTask ==
    [taskGroupId |-> parent_task_id,
     dependencies |-> <<parent_task_id>>,
     created |-> now,
     deadline |-> now + preprocess.max_run_time,
     expires |-> now + Week,
     name |-> [task_id |-> TaskIdOf(pool), label |-> [stage |-> "preprocess"]],
     payload |-> [artifacts |-> artifact_map(preprocess.artifacts, now + Week),
                  capabilities |-> EmptyDict,
                  env |-> PreprocessEnv,
                  image |-> preprocess.container,
                  maxRunTime |-> preprocess.max_run_time],
     workerType |-> TaskIdOf(pool),
     scopes |-> TaskScopes(preprocess.scopes)]

\* mutant: work tasks are numbered from 0
WorkTask_ZeroBased(n) ==
    [taskGroupId |-> parent_task_id,
     dependencies |-> deps,
     created |-> now,
     deadline |-> now + pool.max_run_time,
     expires |-> now + Week,
     name |-> [task_id |-> TaskIdOf(pool), label |-> [i |-> n - 1, n |-> pool.tasks]],
     payload |-> [artifacts |-> artifact_map(pool.artifacts, now + Week),
                  capabilities |-> EmptyDict,
                  env |-> WorkEnv,
                  image |-> pool.container,
                  maxRunTime |-> pool.max_run_time],
     workerType |-> TaskIdOf(pool),
     scopes |-> TaskScopes(pool.scopes)]

\* the n-th work task descriptor (the dict literal)
WorkTask(n) ==
    [taskGroupId |-> parent_task_id,
     dependencies |-> deps,
     created |-> now,
     deadline |-> now + pool.max_run_time,
     expires |-> now + Week,
     name |-> [task_id |-> TaskIdOf(pool), label |-> [i |-> n, n |-> pool.tasks]],
     payload |-> [artifacts |-> artifact_map(pool.artifacts, now + Week),
                  capabilities |-> EmptyDict,
                  env |-> WorkEnv,
                  image |-> pool.container,
                  maxRunTime |-> pool.max_run_time],
     workerType |-> TaskIdOf(pool),
     scopes |-> TaskScopes(pool.scopes)]

\* mutant: the preprocess task id is not added to deps
DepsAfterPreprocess_NotAppended(d, task_id) == d

\* deps.append(task_id)
DepsAfterPreprocess(d, task_id) == Append(d, task_id)

TasksInit ==
    /\ gen = "created"
    /\ pool \in Pools
    /\ parent_task_id \in {"someTaskId"}
    /\ env \in Envs
    /\ now = 0
    /\ deps = <<>>
    /\ preprocess = PyNone
    /\ loop_i = 0
    /\ slugs = {}
    /\ emitted = <<>>
    /\ poolmap = PyNone
    /\ res = "created"
    /\ resources = PyNone

\* now = datetime.utcnow(); deps = [parent_task_id];
\* preprocess = self.create_preprocess()
StartBuild ==
    /\ UNCHANGED <<cancelVars, extVars>>
    /\ UNCHANGED resVars
    /\ gen = "created"
    /\ now' \in Nows
    /\ deps' = <<parent_task_id>>
    /\ preprocess' = CreatePreprocess(pool)
    /\ gen' = IF preprocess' # PyNone THEN "preprocess" ELSE "tasks"
    /\ UNCHANGED <<pool, parent_task_id, env, loop_i, slugs, emitted>>

\* if preprocess is not None: ... yield task_id, task
EmitPreprocess ==
    /\ UNCHANGED <<cancelVars, extVars>>
    /\ UNCHANGED resVars
    /\ gen = "preprocess"
    /\ EnvAccepted(PreprocessEnv)
    /\ \E task_id \in SlugIds \ slugs :
          /\ slugs' = slugs \cup {task_id}
          /\ deps' = DepsAfterPreprocess(deps, task_id)
          /\ emitted' = Append(emitted, [task_id |-> task_id,
                                         task |-> Completed(PreprocessTask)])
    /\ gen' = "tasks"
    /\ UNCHANGED <<pool, parent_task_id, env, now, preprocess, loop_i>>

\* the assertion on env fails while the preprocess task is built
PreprocessEnvClash ==
    /\ UNCHANGED <<cancelVars, extVars>>
    /\ UNCHANGED resVars
    /\ gen = "preprocess"
    /\ ~EnvAccepted(PreprocessEnv)
    /\ gen' = "raised"
    /\ UNCHANGED <<pool, parent_task_id, env, now, deps, preprocess, loop_i, slugs,
                   emitted>>

\* one turn of: for i in range(1, self.tasks + 1): ... yield task_id, task
EmitTask ==
    /\ UNCHANGED <<cancelVars, extVars>>
    /\ UNCHANGED resVars
    /\ gen = "tasks"
    /\ loop_i < pool.tasks
    /\ EnvAccepted(WorkEnv)
    /\ loop_i' = loop_i + 1
    /\ \E task_id \in SlugIds \ slugs :
          /\ slugs' = slugs \cup {task_id}
          /\ emitted' = Append(emitted, [task_id |-> task_id,
                                         task |-> Completed(WorkTask(loop_i'))])
    /\ UNCHANGED <<gen, pool, parent_task_id, env, now, deps, preprocess>>

\* the assertion on env fails while a work task is built
TaskEnvClash ==
    /\ UNCHANGED <<cancelVars, extVars>>
    /\ UNCHANGED resVars
    /\ gen = "tasks"
    /\ loop_i < pool.tasks
    /\ ~EnvAccepted(WorkEnv)
    /\ loop_i' = loop_i + 1
    /\ gen' = "raised"
    /\ UNCHANGED <<pool, parent_task_id, env, now, deps, preprocess, slugs, emitted>>

\* the range is exhausted: the generator ends
EndBuild ==
    /\ UNCHANGED <<cancelVars, extVars>>
    /\ UNCHANGED resVars
    /\ gen = "tasks"
    /\ loop_i = pool.tasks
    /\ gen' = "done"
    /\ UNCHANGED <<pool, parent_task_id, env, now, deps, preprocess, loop_i, slugs,
                   emitted>>

(***************************************************************************)
(* Part 3: build_resources of PoolConfiguration and PoolConfigMap          *)
(***************************************************************************)
SCHEDULER_ID == "-"
PROVISIONER_ID == "proj-fuzzing"
HOOK_PREFIX == "project-fuzzing"
WORKER_POOL_PREFIX == "proj-fuzzing"

\* the keys of the providers argument
Providers == {"aws", "gcp"}

\* self.cloud
Clouds == {"aws", "static"}

\* max_run_time of the pools whose resources are built: "30s", "12h", "25h"
ResourceRunTimes == {30, 43200, 90000}

\* cycle_time: "1h", "12h"
CycleTimes == {3600, 43200}

\* pool configurations whose resources are built
ResourcePools ==
    { [pool_id |-> "pool1", platform |-> "linux", cloud |-> cl, tasks |-> t,
       max_run_time |-> r, cycle_time |-> c, container |-> i, scopes |-> s,
       artifacts |-> EmptyDict, preprocess |-> PyNone]
        : cl \in Clouds, t \in 1..MaxResourceTasks, r \in ResourceRunTimes,
          c \in CycleTimes, i \in Containers, s \in ScopeLists }

\* the flattened configurations of the target pools of a map
TargetPools ==
    { [pool_id |-> "pool1", platform |-> "linux", cloud |-> "aws", tasks |-> t,
       max_run_time |-> 30, cycle_time |-> TaskCycleTime, container |-> i,
       scopes |-> s, artifacts |-> EmptyDict, preprocess |-> PyNone]
        : t \in 1..MaxPoolTasks, i \in Containers,
          s \in { <<>>, <<DeviceScope("kvm")>>,
                  <<PrivilegedScope, DeviceScope("kvm")>> } }

\* pool maps: targets holds what iterpools() yields, in apply_to order
PoolMaps ==
    { [pool_id |-> "map1", platform |-> "linux", cloud |-> cl, cycle_time |-> c,
       targets |-> t]
        : cl \in Clouds, c \in {TaskCycleTime},
          t \in UNION { [1..n -> TargetPools] : n \in 1..MaxTargets } }

\* self.iterpools(): one flattened PoolConfiguration per target
iterpools(m) == m.targets

\* math.ceil(a / b), for b > 0
Ceil(a, b) == (a + b - 1) \div b

Max(a, b) == IF a >= b THEN a ELSE b

\* mutant: the capacity is not doubled
MaxCapacity_NotDoubled(p) ==
    Max(1, Ceil(p.max_run_time, p.cycle_time)) * p.tasks + 1

\* "maxCapacity" of PoolConfiguration.build_resources
MaxCapacity(p) ==
    Max(1, Ceil(p.max_run_time, p.cycle_time)) * p.tasks * 2 + 1

\* sum(pool.tasks for pool in pools)
RECURSIVE SumTasks(_)
SumTasks(pools) ==
    IF pools = <<>> THEN 0 ELSE Head(pools).tasks + SumTasks(Tail(pools))

\* mutant: the capacity is that of the first target pool alone
MapMaxCapacity_FirstPool(pools) == Max(Head(pools).tasks * 2, 3)

\* "maxCapacity" of PoolConfigMap.build_resources
MapMaxCapacity(pools) == Max(SumTasks(pools) * 2, 3)

\* the "config" of the worker pool
Config(maxCapacity) ==
    [minCapacity |-> 0,
     maxCapacity |-> maxCapacity,
     lifecycle |-> [registrationTimeout |-> 900, reregistrationTimeout |-> 43200]]

\* decision_task_scopes of PoolConfiguration.build_resources
decision_task_scopes(task_id) ==
    << "queue:scheduler-id:" \o SCHEDULER_ID,
       "queue:cancel-task:" \o SCHEDULER_ID \o "/*",
       "queue:create-task:highest:" \o PROVISIONER_ID \o "/" \o task_id,
       SecretScope >>

\* decision_task_scopes of PoolConfigMap.build_resources
map_decision_task_scopes(task_id) ==
    << "queue:scheduler-id:" \o SCHEDULER_ID,
       "queue:create-task:highest:" \o PROVISIONER_ID \o "/" \o task_id,
       SecretScope >>

\* set(itertools.chain.from_iterable(pool.scopes for pool in pools))
AllScopes(pools) ==
    UNION { ScopeSet(pools[i].scopes) : i \in 1..Len(pools) }

\* tuple(a set): its elements once each, in an order the code does not fix
TuplesOf(S) ==
    { q \in [1..Cardinality(S) -> S] : {q[i] : i \in 1..Cardinality(S)} = S }

\* payload env of the decision task before the update
DecisionEnv == [TASKCLUSTER_SECRET |-> DECISION_TASK_SECRET]

\* the decision task of the hook (the dict literal)
DecisionTask(conf, scopes) ==
    [name |-> [task_id |-> TaskIdOf(conf), label |-> [stage |-> "decision"]],
     payload |-> [artifacts |-> EmptyDict,
                  capabilities |-> EmptyDict,
                  env |-> DecisionEnv,
                  command |-> <<"fuzzing-decision", conf.pool_id>>,
                  maxRunTime |-> 3600],
     workerType |-> TaskIdOf(conf),
     scopes |-> scopes]

\* [pool, hook, role]
Resources(conf, config, scopes) ==
    << [kind |-> "WorkerPool",
        workerPoolId |-> WORKER_POOL_PREFIX \o "/" \o TaskIdOf(conf),
        config |-> config],
       [kind |-> "Hook",
        hookGroupId |-> HOOK_PREFIX,
        hookId |-> TaskIdOf(conf),
        task |-> Completed(DecisionTask(conf, scopes))],
       [kind |-> "Role",
        roleId |-> "hook-id:" \o HOOK_PREFIX \o "/" \o TaskIdOf(conf),
        scopes |-> scopes] >>

\* the variables of build_tasks
buildVars == <<gen, pool, parent_task_id, env, now, deps, preprocess, loop_i,
               slugs, emitted>>

\* PoolConfiguration.build_resources returns [pool, hook, role]
BuildResources ==
    /\ UNCHANGED <<cancelVars, extVars>>
    /\ res = "created"
    /\ pool # PyNone
    /\ pool.cloud \in Providers
    /\ EnvAccepted(DecisionEnv)
    /\ resources' = Resources(pool, Config(MaxCapacity(pool)),
                              pool.scopes \o decision_task_scopes(TaskIdOf(pool)))
    /\ res' = "returned"
    /\ UNCHANGED <<buildVars, poolmap>>

\* an assertion of PoolConfiguration.build_resources fails: on the cloud
\* provider or on env
BuildResourcesRaises ==
    /\ UNCHANGED <<cancelVars, extVars>>
    /\ res = "created"
    /\ pool # PyNone
    /\ pool.cloud \notin Providers \/ ~EnvAccepted(DecisionEnv)
    /\ res' = "raised"
    /\ UNCHANGED <<buildVars, poolmap, resources>>

\* PoolConfigMap.build_resources returns [pool, hook, role]
MapBuildResources ==
    /\ UNCHANGED <<cancelVars, extVars>>
    /\ res = "created"
    /\ poolmap # PyNone
    /\ poolmap.cloud \in Providers
    /\ EnvAccepted(DecisionEnv)
    /\ LET pools == iterpools(poolmap)
       IN  \E all_scopes \in TuplesOf(AllScopes(pools)) :
              resources' = Resources(poolmap, Config(MapMaxCapacity(pools)),
                                     all_scopes \o map_decision_task_scopes(TaskIdOf(poolmap)))
    /\ res' = "returned"
    /\ UNCHANGED <<buildVars, poolmap>>

\* an assertion of PoolConfigMap.build_resources fails
MapBuildResourcesRaises ==
    /\ UNCHANGED <<cancelVars, extVars>>
    /\ res = "created"
    /\ poolmap # PyNone
    /\ poolmap.cloud \notin Providers \/ ~EnvAccepted(DecisionEnv)
    /\ res' = "raised"
    /\ UNCHANGED <<buildVars, poolmap, resources>>

TasksNext ==
    \/ StartBuild
    \/ EmitPreprocess
    \/ PreprocessEnvClash
    \/ EmitTask
    \/ TaskEnvClash
    \/ EndBuild
    \/ BuildResources
    \/ BuildResourcesRaises

\* a PoolConfiguration: build_tasks(parent_task_id, env) and
\* build_resources(providers, machine_types, env) can be called on it
InitTasks == TasksInit /\ CancelIdle /\ ExtIdle

SpecTasks == InitTasks /\ [][TasksNext]_vars

\* a PoolConfiguration or a PoolConfigMap whose resources are built
ResourcesInit ==
    /\ gen = "idle"
    /\ \/ pool \in ResourcePools /\ poolmap = PyNone
       \/ pool = PyNone /\ poolmap \in PoolMaps
    /\ parent_task_id = None
    /\ env \in Envs
    /\ now = 0
    /\ deps = <<>>
    /\ preprocess = PyNone
    /\ loop_i = 0
    /\ slugs = {}
    /\ emitted = <<>>
    /\ res = "created"
    /\ resources = PyNone

ResourcesNext ==
    \/ BuildResources
    \/ BuildResourcesRaises
    \/ MapBuildResources
    \/ MapBuildResourcesRaises

InitResources == ResourcesInit /\ CancelIdle /\ ExtIdle

SpecResources == InitResources /\ [][ResourcesNext]_vars

(***************************************************************************)
(* Part 4: PoolConfigMap.build_tasks                                       *)
(***************************************************************************)
\* pool.container of the target pools of a map
MapContainers == {"MozillaSecurity/fuzzer:latest", "MozillaSecurity/grizzly:latest"}

\* the flattened configurations iterpools() yields for the targets of a map
\* whose tasks are built
BuildTargets ==
    { [pool_id |-> "pool1", platform |-> "linux", cloud |-> "aws", tasks |-> t,
       max_run_time |-> 30, cycle_time |-> TaskCycleTime,
       container |-> "MozillaSecurity/fuzzer:latest", scopes |-> <<>>,
       artifacts |-> EmptyDict, preprocess |-> PyNone] : t \in 1..MaxPoolTasks }
    \cup
    { [pool_id |-> "pool2", platform |-> "windows", cloud |-> "aws", tasks |-> t,
       max_run_time |-> 3600, cycle_time |-> TaskCycleTime,
       container |-> "MozillaSecurity/grizzly:latest",
       scopes |-> <<DeviceScope("kvm")>>,
       artifacts |-> "/some-file.txt" :>
                        [url |-> "project/fuzzing/private/file.txt", type |-> "file"],
       preprocess |-> PyNone] : t \in 1..MaxPoolTasks }

\* pool maps whose tasks are built: slugId() has an id for each of their tasks
BuildMaps ==
    { [pool_id |-> "map1", platform |-> "linux", cloud |-> "aws",
       cycle_time |-> TaskCycleTime, targets |-> t]
        : t \in { s \in UNION { [1..n -> BuildTargets] : n \in 1..MaxTargets } :
                    SumTasks(s) <= Cardinality(SlugIds) } }

\* payload env of a task of a map before the update
MapWorkEnv(p) ==
    [TASKCLUSTER_FUZZING_POOL |-> p.pool_id,
     TASKCLUSTER_SECRET |-> DECISION_TASK_SECRET]

\* mutant: the worker type is that of the target pool
MapWorkTask_TargetWorkerType(m, p, i) ==
    [taskGroupId |-> parent_task_id,
     dependencies |-> deps,
     created |-> now,
     deadline |-> now + p.max_run_time,
     expires |-> now + Week,
     name |-> [task_id |-> TaskIdOf(p), label |-> [i |-> i, n |-> p.tasks]],
     payload |-> [artifacts |-> LogsArtifact :>
                      [expires |-> now + Week, path |-> "/logs/", type |-> "directory"],
                  capabilities |-> EmptyDict,
                  env |-> MapWorkEnv(p),
                  image |-> p.container,
                  maxRunTime |-> p.max_run_time],
     workerType |-> TaskIdOf(p),
     scopes |-> TaskScopes(p.scopes)]

\* the descriptor of task i of the target pool p of the map m (the dict
\* literal)
MapWorkTask(m, p, i) ==
    [taskGroupId |-> parent_task_id,
     dependencies |-> deps,
     created |-> now,
     deadline |-> now + p.max_run_time,
     expires |-> now + Week,
     name |-> [task_id |-> TaskIdOf(p), label |-> [i |-> i, n |-> p.tasks]],
     payload |-> [artifacts |-> LogsArtifact :>
                      [expires |-> now + Week, path |-> "/logs/", type |-> "directory"],
                  capabilities |-> EmptyDict,
                  env |-> MapWorkEnv(p),
                  image |-> p.container,
                  maxRunTime |-> p.max_run_time],
     workerType |-> TaskIdOf(m),
     scopes |-> TaskScopes(p.scopes)]

\* the turn of the nested loops that follows turn i of the p-th target:
\* <<p, i + 1>> within range(1, pool.tasks + 1), else the first turn of the
\* next target that has one; <<Len(pools) + 1, 0>> when the loops are over
RECURSIVE NextTurn(_, _, _)
NextTurn(pools, p, i) ==
    IF p > Len(pools)
    THEN <<p, 0>>
    ELSE IF p >= 1 /\ i < pools[p].tasks
         THEN <<p, i + 1>>
         ELSE NextTurn(pools, p + 1, 0)

MapTasksInit ==
    /\ gen = "created"
    /\ pool = PyNone
    /\ poolmap \in BuildMaps
    /\ parent_task_id \in {"someTaskId"}
    /\ env \in Envs
    /\ now = 0
    /\ deps = <<>>
    /\ preprocess = PyNone
    /\ loop_i = 0
    /\ pool_i = 0
    /\ slugs = {}
    /\ emitted = <<>>
    /\ res = "created"
    /\ resources = PyNone

\* now = datetime.utcnow(); deps = [parent_task_id]
MapStartBuild ==
    /\ UNCHANGED <<cancelVars, resVars, loaderVars, listVars, monitorVars>>
    /\ gen = "created"
    /\ now' \in Nows
    /\ deps' = <<parent_task_id>>
    /\ gen' = "pools"
    /\ UNCHANGED <<pool, parent_task_id, env, preprocess, loop_i, pool_i, slugs,
                   emitted>>

\* one turn of: for pool in self.iterpools():
\*                  for i in range(1, pool.tasks + 1): ... yield task_id, task
MapEmitTask ==
    /\ UNCHANGED <<cancelVars, resVars, loaderVars, listVars, monitorVars>>
    /\ gen = "pools"
    /\ LET pools == iterpools(poolmap)
           turn == NextTurn(pools, pool_i, loop_i)
       IN  /\ turn[1] <= Len(pools)
           /\ EnvAccepted(MapWorkEnv(pools[turn[1]]))
           /\ pool_i' = turn[1]
           /\ loop_i' = turn[2]
           /\ \E task_id \in SlugIds \ slugs :
                 /\ slugs' = slugs \cup {task_id}
                 /\ emitted' = Append(emitted,
                        [task_id |-> task_id,
                         task |-> Completed(MapWorkTask(poolmap, pools[turn[1]],
                                                        turn[2]))])
    /\ UNCHANGED <<gen, pool, parent_task_id, env, now, deps, preprocess>>

\* the assertion on env fails while a task of a map is built
MapTaskEnvClash ==
    /\ UNCHANGED <<cancelVars, resVars, loaderVars, listVars, monitorVars>>
    /\ gen = "pools"
    /\ LET pools == iterpools(poolmap)
           turn == NextTurn(pools, pool_i, loop_i)
       IN  /\ turn[1] <= Len(pools)
           /\ ~EnvAccepted(MapWorkEnv(pools[turn[1]]))
           /\ pool_i' = turn[1]
           /\ loop_i' = turn[2]
    /\ gen' = "raised"
    /\ UNCHANGED <<pool, parent_task_id, env, now, deps, preprocess, slugs, emitted>>

\* both loops are exhausted: the generator ends
MapEndBuild ==
    /\ UNCHANGED <<cancelVars, resVars, loaderVars, listVars, monitorVars>>
    /\ gen = "pools"
    /\ LET pools == iterpools(poolmap)
           turn == NextTurn(pools, pool_i, loop_i)
       IN  /\ turn[1] > Len(pools)
           /\ pool_i' = turn[1]
           /\ loop_i' = turn[2]
    /\ gen' = "done"
    /\ UNCHANGED <<pool, parent_task_id, env, now, deps, preprocess, slugs, emitted>>

MapTasksNext ==
    \/ MapStartBuild
    \/ MapEmitTask
    \/ MapTaskEnvClash
    \/ MapEndBuild

\* a PoolConfigMap on which build_tasks(parent_task_id, env) is called
InitMapTasks == MapTasksInit /\ CancelIdle /\ ExtIdle

SpecMapTasks == InitMapTasks /\ [][MapTasksNext]_vars

(***************************************************************************)
(* Part 5: PoolConfigLoader.from_file                                      *)
(***************************************************************************)
\* keys a YAML document can hold: fields of the two schemas and an unknown one
DocumentKeys == {"name", "cloud", "tasks", "parents", "apply_to", "extra_key"}

\* FIELD_TYPES and REQUIRED_FIELDS of the two classes: a pool names its
\* parents, a map must name the pools it applies to
Schemas ==
    [PoolConfiguration |->
        [FIELD_TYPES |-> {"name", "cloud", "tasks", "parents"},
         REQUIRED_FIELDS |-> {"name"}],
     PoolConfigMap |->
        [FIELD_TYPES |-> {"name", "cloud", "tasks", "apply_to"},
         REQUIRED_FIELDS |-> {"name", "cloud", "apply_to"}]]

\* mutant: only the required fields are looked for
Fits_RequiredOnly(keys, cls) == Schemas[cls].REQUIRED_FIELDS \subseteq keys

\* set(cls.FIELD_TYPES) >= set(data.keys()) >= cls.REQUIRED_FIELDS
Fits(keys, cls) ==
    /\ keys \subseteq Schemas[cls].FIELD_TYPES
    /\ Schemas[cls].REQUIRED_FIELDS \subseteq keys

\* for cls in (PoolConfiguration, PoolConfigMap): the first class that fits,
\* None when the loop ends without a return
FirstFit(keys) ==
    IF Fits(keys, "PoolConfiguration") THEN "PoolConfiguration"
    ELSE IF Fits(keys, "PoolConfigMap") THEN "PoolConfigMap"
    ELSE None

LoaderInit ==
    /\ pool_yml \in [is_file : BOOLEAN, keys : SUBSET DocumentKeys]
    /\ loaded = None
    /\ load_exc = None

\* from_file(pool_yml) returns cls(pool_yml.stem, data, ...)
FromFile ==
    /\ UNCHANGED <<cancelVars, taskVars, mapVars, listVars, monitorVars>>
    /\ loaded = None /\ load_exc = None
    /\ pool_yml.is_file
    /\ FirstFit(pool_yml.keys) # None
    /\ loaded' = FirstFit(pool_yml.keys)
    /\ UNCHANGED <<pool_yml, load_exc>>

\* no class fits: raise RuntimeError("... type could not be identified!")
FromFileUnidentified ==
    /\ UNCHANGED <<cancelVars, taskVars, mapVars, listVars, monitorVars>>
    /\ loaded = None /\ load_exc = None
    /\ pool_yml.is_file
    /\ FirstFit(pool_yml.keys) = None
    /\ load_exc' = "RuntimeError"
    /\ UNCHANGED <<pool_yml, loaded>>

\* assert pool_yml.is_file() fails
FromFileNotAFile ==
    /\ UNCHANGED <<cancelVars, taskVars, mapVars, listVars, monitorVars>>
    /\ loaded = None /\ load_exc = None
    /\ ~pool_yml.is_file
    /\ load_exc' = "AssertionError"
    /\ UNCHANGED <<pool_yml, loaded>>

LoaderNext ==
    \/ FromFile
    \/ FromFileUnidentified
    \/ FromFileNotAFile

\* a path on which PoolConfigLoader.from_file is called
InitLoader ==
    LoaderInit /\ CancelIdle /\ TasksIdle /\ MapIdle /\ ListIdle /\ MonitorIdle

SpecLoader == InitLoader /\ [][LoaderNext]_vars

(***************************************************************************)
(* Part 6: CrashManager._list_objs                                         *)
(***************************************************************************)
\* requests one _list_objs call makes
MaxRequests == 3

\* the server settings of self: complete, or without an auth token
Servers ==
    { [serverProtocol |-> "https", serverHost |-> "host", serverPort |-> "443",
       serverAuthToken |-> t] : t \in {"token", ""} }

\* the query argument: None or a query definition
Queries == { PyNone, [op |-> "OR"] }

\* the ordering argument: None or a list of fields
Orderings == { PyNone, <<"testcase__size", "-id">> }

\* the calls list_crashes and list_buckets make
ListCalls ==
    { [self |-> s, endpoint |-> "crashes", query |-> q, ordering |-> o]
        : s \in Servers, q \in Queries, o \in Orderings }
    \cup
    { [self |-> s, endpoint |-> "buckets", query |-> q, ordering |-> PyNone]
        : s \in Servers, q \in Queries }

\* json.dumps(query)
json_dumps(query) == "{\"op\": \"" \o query.op \o "\"}"

\* ",".join(ordering)
RECURSIVE Join(_)
Join(ordering) ==
    IF ordering = <<>> THEN ""
    ELSE IF Len(ordering) = 1 THEN ordering[1]
    ELSE ordering[1] \o "," \o Join(Tail(ordering))

\* the params dict built before the loop
FirstParams(call) ==
    (IF call.query # PyNone THEN "query" :> json_dumps(call.query) ELSE EmptyDict)
    @@ (IF call.ordering # PyNone THEN "ordering" :> Join(call.ordering) ELSE EmptyDict)
    @@ (IF call.endpoint = "crashes" THEN "include_raw" :> "0" ELSE EmptyDict)
    @@ ("limit" :> 1000)

\* f"{serverProtocol}://{serverHost}:{serverPort}/crashmanager/rest/{endpoint}/"
EndpointUrl(call) ==
    call.self.serverProtocol \o "://" \o call.self.serverHost \o ":"
        \o call.self.serverPort \o "/crashmanager/rest/" \o call.endpoint \o "/"

\* the url of a further page, as the server names it in "next"
PageUrl == "https://host:443/crashmanager/rest/crashes/?limit=1000&offset=1000"

\* the values of "next" in a response: null, an empty string or a url
NextValues == {None, "", PageUrl}

\* the records of one response
ResultLists == { <<>>, <<"recordA">>, <<"recordA", "recordB">>, <<"recordB", "recordA">> }

\* the values of "count" in a response
Counts == {0, 1000}

\* the decoded bodies the server can answer with: a paginated dict, a bare
\* list, or JSON that is neither
Responses ==
    { [kind |-> "dict", next |-> n, results |-> r, count |-> c]
        : n \in NextValues, r \in ResultLists, c \in Counts }
    \cup { [kind |-> "list", next |-> None, results |-> r, count |-> 0]
             : r \in ResultLists }
    \cup { [kind |-> "other", next |-> None, results |-> <<>>, count |-> 0] }

\* the truth value of next_url in: while next_url
Truthy(url) == url # None /\ url # ""

\* mutant: the loop also stops once count records have been returned
NextUrlAfter_StopAtCount(resp, returned) ==
    IF resp.kind = "dict" /\ returned < resp.count THEN resp.next ELSE None

\* next_url after a response: resp_json["next"] of a dict, None after a list
NextUrlAfter(resp, returned) ==
    IF resp.kind = "dict" THEN resp.next ELSE None

ListObjsInit ==
    /\ listing = "called"
    /\ list_call \in ListCalls
    /\ params = PyNone
    /\ next_url = None
    /\ requests = <<>>
    /\ responses = <<>>
    /\ yielded = <<>>

\* remote_checks: a server setting is missing, RuntimeError
ListObjsUnconfigured ==
    /\ UNCHANGED <<cancelVars, taskVars, mapVars, loaderVars, monitorVars>>
    /\ listing = "called"
    /\ \/ list_call.self.serverProtocol = ""
       \/ list_call.self.serverPort = ""
       \/ list_call.self.serverHost = ""
       \/ list_call.self.serverAuthToken = ""
    /\ listing' = "raised"
    /\ UNCHANGED <<list_call, params, next_url, requests, responses, yielded>>

\* the statements before the loop: params and next_url
ListObjsStart ==
    /\ UNCHANGED <<cancelVars, taskVars, mapVars, loaderVars, monitorVars>>
    /\ listing = "called"
    /\ list_call.self.serverProtocol # ""
    /\ list_call.self.serverPort # ""
    /\ list_call.self.serverHost # ""
    /\ list_call.self.serverAuthToken # ""
    /\ params' = FirstParams(list_call)
    /\ next_url' = EndpointUrl(list_call)
    /\ listing' = "loop"
    /\ UNCHANGED <<list_call, requests, responses, yielded>>

\* one turn of the loop: a request, its response, the records yielded
GetPage ==
    /\ UNCHANGED <<cancelVars, taskVars, mapVars, loaderVars, monitorVars>>
    /\ listing = "loop"
    /\ Truthy(next_url)
    /\ Len(requests) < MaxRequests
    /\ \E resp \in Responses :
          /\ resp.kind # "other"
          /\ requests' = Append(requests, [url |-> next_url, params |-> params])
          /\ responses' = Append(responses, resp)
          /\ yielded' = yielded \o resp.results
          /\ next_url' = NextUrlAfter(resp, Len(yielded'))
          /\ params' = PyNone
    /\ UNCHANGED <<listing, list_call>>

\* the response is neither a dict nor a list: RuntimeError
GetMalformed ==
    /\ UNCHANGED <<cancelVars, taskVars, mapVars, loaderVars, monitorVars>>
    /\ listing = "loop"
    /\ Truthy(next_url)
    /\ Len(requests) < MaxRequests
    /\ \E resp \in Responses :
          /\ resp.kind = "other"
          /\ requests' = Append(requests, [url |-> next_url, params |-> params])
          /\ responses' = Append(responses, resp)
    /\ listing' = "raised"
    /\ UNCHANGED <<list_call, params, next_url, yielded>>

\* next_url is empty: the loop and the generator end
ListObjsEnd ==
    /\ UNCHANGED <<cancelVars, taskVars, mapVars, loaderVars, monitorVars>>
    /\ listing = "loop"
    /\ ~Truthy(next_url)
    /\ listing' = "done"
    /\ UNCHANGED <<list_call, params, next_url, requests, responses, yielded>>

ListObjsNext ==
    \/ ListObjsUnconfigured
    \/ ListObjsStart
    \/ GetPage
    \/ GetMalformed
    \/ ListObjsEnd

\* a CrashManager on which _list_objs(endpoint, query, ordering) is iterated
InitListObjs ==
    ListObjsInit /\ CancelIdle /\ TasksIdle /\ MapIdle /\ LoaderIdle /\ MonitorIdle

SpecListObjs == InitListObjs /\ [][ListObjsNext]_vars

(***************************************************************************)
(* Part 7: ReductionMonitor.run                                            *)
(***************************************************************************)
\* crashes the service holds in one poll
MaxCrashes == 3

\* values of grizzly's Quality
REDUCED == 0
IGNORED == 3
REDUCING == 4
UNREDUCED == 5
REQUEST_SPECIFIC == 6
NOT_REPRODUCIBLE == 10

GENERIC_PLATFORM == "linux"

TC_QUEUES ==
    [linux |-> "grizzly-reduce-worker", windows |-> "grizzly-reduce-worker-windows"]

\* the bucket of a crash: None, or the id of its bucket
NoBucket == [none |-> TRUE]
Bucket1 == [id |-> 1234]

\* what the service holds about a crash, its id apart.  late: the crash got
\* its quality from a reduction worker after the first query of run()
CrashKinds ==
    { [bucket |-> NoBucket, tool |-> "toolA", description |-> "Assertion failure: x",
       os |-> o, quality |-> q, late |-> FALSE]
        : o \in {"linux"}, q \in {REDUCING} }
    \cup
    { [bucket |-> NoBucket, tool |-> "toolA", description |-> "Assertion failure: x",
       os |-> o, quality |-> q, late |-> FALSE]
        : o \in {"macosx", "windows"}, q \in {UNREDUCED} }
    \cup
    { [bucket |-> NoBucket, tool |-> "toolA", description |-> "Assertion failure: x",
       os |-> "windows", quality |-> REQUEST_SPECIFIC, late |-> FALSE] }
    \cup
    { [bucket |-> NoBucket, tool |-> "toolA", description |-> "Assertion failure: y",
       os |-> "linux", quality |-> REQUEST_SPECIFIC, late |-> l] : l \in BOOLEAN }
    \cup
    { [bucket |-> Bucket1, tool |-> "toolA", description |-> "crash [@ f]",
       os |-> "linux", quality |-> UNREDUCED, late |-> FALSE] }

\* the crashes of the service, in the order it lists them; the id of a crash
\* is its position
CrashTables ==
    { [i \in 1..Len(kinds) |-> [crash |-> i] @@ kinds[i]]
        : kinds \in UNION { [1..k -> CrashKinds] : k \in 0..MaxCrashes } }

\* ReducibleCrash(crash, bucket, tool, description, os, quality) of a row
ReducibleCrash(row) ==
    [crash |-> row.crash, bucket |-> row.bucket, tool |-> row.tool,
     description |-> row.description, os |-> row.os, quality |-> row.quality]

\* the first query of run(): Q6 crashes whose os has no queue of its own
IsUnroutable(row) ==
    /\ row.quality = REQUEST_SPECIFIC
    /\ row.os \notin (DOMAIN TC_QUEUES \ {GENERIC_PLATFORM})
    /\ ~row.late

\* the crashes of listed buckets with a quality the bucket query asks for
IsBucketedListed(row) ==
    /\ row.bucket # NoBucket
    /\ row.quality \in {IGNORED, REDUCING, REQUEST_SPECIFIC, UNREDUCED}

\* the unbucketed crashes with a quality the last query asks for
IsUnbucketedListed(row) ==
    /\ row.bucket = NoBucket
    /\ row.quality \in {IGNORED, REDUCED, REDUCING, REQUEST_SPECIFIC, UNREDUCED}

\* _fuzzmanager_get_crashes: the bucketed crashes, then the unbucketed ones
fuzzmanager_get_crashes(table) ==
    LET bucketed == SelectSeq(table, IsBucketedListed)
        unbucketed == SelectSeq(table, IsUnbucketedListed)
        all == bucketed \o unbucketed
    IN  [k \in 1..Len(all) |-> ReducibleCrash(all[k])]

\* tag = (crash.bucket, crash.tool, crash.description)
TagOf(crash) == <<crash.bucket, crash.tool, crash.description>>

Min(a, b) == IF a <= b THEN a ELSE b

\* mutant: a tag that turns out to be reducing keeps the crashes queued so far
FilterStep_NoPop(st, crash) ==
    LET tag == TagOf(crash)
    IN  IF tag \in DOMAIN st.skip
        THEN [st EXCEPT !.skip = (tag :> Min(crash.quality, st.skip[tag])) @@ st.skip]
        ELSE IF crash.quality < UNREDUCED
        THEN [st EXCEPT !.skip = (tag :> crash.quality) @@ st.skip]
        ELSE IF \E k \in 1..Len(st.queue) : st.queue[k].tag = tag
        THEN [st EXCEPT !.queue =
                 [k \in 1..Len(st.queue) |->
                     IF st.queue[k].tag = tag
                     THEN [st.queue[k] EXCEPT !.crashes = Append(@, crash)]
                     ELSE st.queue[k]]]
        ELSE [st EXCEPT !.queue = Append(@, [tag |-> tag, crashes |-> <<crash>>])]

\* the body of the first loop of _filter_reducing_unbucketed; st.skip is the
\* dict skip, st.queue the dict queue as its items in insertion order
FilterStep(st, crash) ==
    LET tag == TagOf(crash)
        Others(e) == e.tag # tag
    IN  IF tag \in DOMAIN st.skip
        THEN [st EXCEPT !.skip = (tag :> Min(crash.quality, st.skip[tag])) @@ st.skip]
        ELSE IF crash.quality < UNREDUCED
        THEN [skip |-> (tag :> crash.quality) @@ st.skip,
              queue |-> SelectSeq(st.queue, Others)]
        ELSE IF \E k \in 1..Len(st.queue) : st.queue[k].tag = tag
        THEN [st EXCEPT !.queue =
                 [k \in 1..Len(st.queue) |->
                     IF st.queue[k].tag = tag
                     THEN [st.queue[k] EXCEPT !.crashes = Append(@, crash)]
                     ELSE st.queue[k]]]
        ELSE [st EXCEPT !.queue = Append(@, [tag |-> tag, crashes |-> <<crash>>])]

\* the first loop of _filter_reducing_unbucketed over the crashes
RECURSIVE FilterLoop(_, _)
FilterLoop(st, crashes) ==
    IF crashes = <<>> THEN st
    ELSE FilterLoop(FilterStep(st, Head(crashes)), Tail(crashes))

\* for crashes in queue.values(): yield from crashes
RECURSIVE QueueValues(_)
QueueValues(queue) ==
    IF queue = <<>> THEN <<>> ELSE Head(queue).crashes \o QueueValues(Tail(queue))

\* what _filter_reducing_unbucketed yields for the crashes it is given
filter_reducing_unbucketed(crashes) ==
    QueueValues(FilterLoop([skip |-> EmptyDict, queue |-> <<>>], crashes).queue)

\* repr() of a non-negative int
RECURSIVE IntRepr(_)
IntRepr(n) ==
    LET digit == <<"0", "1", "2", "3", "4", "5", "6", "7", "8", "9">>
    IN  IF n < 10 THEN digit[n + 1] ELSE IntRepr(n \div 10) \o digit[(n % 10) + 1]

\* repr() of crash.bucket
BucketRepr(bucket) == IF bucket = NoBucket THEN "None" ELSE IntRepr(bucket.id)

\* sig = f"{crash.tool}:{crash.bucket!r}:{crash.description}:{crash.quality!r}"
SigOf(crash) ==
    crash.tool \o ":" \o BucketRepr(crash.bucket) \o ":" \o crash.description
        \o ":" \o IntRepr(crash.quality)

\* mutant: a signature held back for the random pick is not remembered
SeenAfterHold_NotAdded(s, sig) == s

\* seen.add(sig), before the signature is held back for the random pick
SeenAfterHold(s, sig) == s \cup {sig}

\* mutant: an unreduced crash goes to the queue of its own os when it has one
Routing_OwnQueue(reduction) ==
    LET specific == reduction.os \in DOMAIN TC_QUEUES /\ reduction.os # GENERIC_PLATFORM
    IN  IF specific
        THEN [queued |-> TRUE, os_name |-> reduction.os, env |-> EmptyDict]
        ELSE IF reduction.quality = UNREDUCED
        THEN [queued |-> TRUE, os_name |-> GENERIC_PLATFORM, env |-> EmptyDict]
        ELSE [queued |-> FALSE, os_name |-> None, env |-> EmptyDict]

\* the routing of the loop body of run(): whether the crash is queued, the
\* os_name passed to queue_reduction_task, and what no_repro_quality adds to
\* the env of the task
Routing(reduction) ==
    LET specific == reduction.os \in DOMAIN TC_QUEUES /\ reduction.os # GENERIC_PLATFORM
    IN  IF reduction.quality = UNREDUCED
        THEN [queued |-> TRUE, os_name |-> GENERIC_PLATFORM,
              env |-> IF specific
                      THEN "NO_REPRO_QUALITY" :> IntRepr(REQUEST_SPECIFIC)
                      ELSE EmptyDict]
        ELSE IF specific
        THEN [queued |-> TRUE, os_name |-> reduction.os, env |-> EmptyDict]
        ELSE [queued |-> FALSE, os_name |-> None, env |-> EmptyDict]

\* the namespace image_artifact_task is asked for, None for an os without
ImageNamespace(os_name) ==
    IF os_name = "windows" THEN "project.fuzzing.orion.grizzly-win.master"
    ELSE IF os_name = "macosx" THEN "project.fuzzing.orion.grizzly-macos.master"
    ELSE None

\* the task ids the index can answer findTask with
ImageTaskIds == {"imageTaskA", "imageTaskB"}

\* mutant: every call looks the namespace up
NeedsLookup_Always(cache, namespace) == TRUE

\* if namespace not in self._gw_image_artifact_tasks
NeedsLookup(cache, namespace) == namespace \notin DOMAIN cache

\* idx.findTask(namespace), as recorded in calls: whether it returned, and
\* result["taskId"]
FindCall(namespace, ok, taskId) ==
    [op |-> "findTask", namespace |-> namespace, ok |-> ok, taskId |-> taskId]

\* srv.update_testcase_quality(crash_id, quality), as recorded in calls
UpdateCall(crash_id, quality) ==
    [op |-> "update_testcase_quality", crash |-> crash_id, quality |-> quality]

\* the service after update_testcase_quality(crash_id, quality)
Updated(table, crash_id, quality) == [table EXCEPT ![crash_id].quality = quality]

\* mutant: the crashes without a queue are marked in a dry run too
FirstLoopMarks_DryRunToo(table, dry) ==
    { i \in 1..Len(table) : IsUnroutable(table[i]) }

\* the crashes the first loop of run() marks NOT_REPRODUCIBLE
FirstLoopMarks(table, dry) ==
    IF dry THEN {} ELSE { i \in 1..Len(table) : IsUnroutable(table[i]) }

\* the update_testcase_quality calls of the first loop of run(), in order
RECURSIVE MarkCalls(_, _, _)
MarkCalls(marks, i, n) ==
    IF i > n THEN <<>>
    ELSE (IF i \in marks THEN <<UpdateCall(i, NOT_REPRODUCIBLE)>> ELSE <<>>)
            \o MarkCalls(marks, i + 1, n)

\* the list queries of one poll: the first query of run(), then those of
\* _fuzzmanager_get_crashes
ListCall(endpoint) == [op |-> "list", endpoint |-> endpoint]

\* mutant: the crash is marked REDUCING whether or not createTask succeeded
AfterCreateTask_AlwaysMarks(ok, crash_id) == <<UpdateCall(crash_id, REDUCING)>>

\* what queue_reduction_task calls after createTask: the REDUCING update when
\* it succeeded, nothing after a TaskclusterFailure
AfterCreateTask(ok, crash_id) ==
    IF ok THEN <<UpdateCall(crash_id, REDUCING)>> ELSE <<>>

RECURSIVE ApplyUpdates(_, _)
ApplyUpdates(table, updates) ==
    IF updates = <<>> THEN table
    ELSE ApplyUpdates(Updated(table, Head(updates).crash, Head(updates).quality),
                      Tail(updates))

MonitorInit ==
    /\ mon = "created"
    /\ dry_run \in BOOLEAN
    /\ crash_table \in CrashTables
    /\ arrived = <<>>
    /\ filtered = <<>>
    /\ fpos = 0
    /\ seen = {}
    /\ randomize_crashes = <<>>
    /\ rpos = 0
    /\ selected = <<>>
    /\ calls = <<>>
    /\ image_tasks = EmptyDict

\* run() up to the first crash _filter_reducing_unbucketed can yield: the
\* first loop, then the queries of _fuzzmanager_get_crashes and the first
\* loop of the filter over all they return
RunPoll ==
    /\ UNCHANGED <<cancelVars, taskVars, mapVars, loaderVars, listVars>>
    /\ mon = "created"
    /\ LET marks == FirstLoopMarks(crash_table, dry_run)
           updates == MarkCalls(marks, 1, Len(crash_table))
           table == ApplyUpdates(crash_table, updates)
       IN  /\ crash_table' = table
           /\ arrived' = fuzzmanager_get_crashes(table)
           /\ calls' = <<ListCall("crashes")>> \o updates
                          \o <<ListCall("buckets")>>
                          \o (IF \E i \in 1..Len(table) : table[i].bucket # NoBucket
                              THEN <<ListCall("crashes")>> ELSE <<>>)
                          \o <<ListCall("crashes")>>
    /\ filtered' = filter_reducing_unbucketed(arrived')
    /\ mon' = "unique"
    /\ UNCHANGED <<dry_run, fpos, seen, randomize_crashes, rpos, selected, image_tasks>>

\* the body of the second loop of run() for the pair (sig, reduction) that
\* _get_unique_crashes yields, queue_reduction_task included
LoopBody(sig, reduction) ==
    LET r == Routing(reduction)
        namespace == ImageNamespace(r.os_name)
    IN  /\ selected' = Append(selected, [sig |-> sig, crash |-> reduction])
        /\ IF ~r.queued
           THEN LET updates == IF dry_run THEN <<>>
                               ELSE <<UpdateCall(reduction.crash, NOT_REPRODUCIBLE)>>
                IN  /\ calls' = calls \o updates
                    /\ crash_table' = ApplyUpdates(crash_table, updates)
                    /\ UNCHANGED <<mon, image_tasks>>
           ELSE IF dry_run
           THEN UNCHANGED <<mon, calls, crash_table, image_tasks>>
           ELSE \/ \* findTask raises: the failure leaves run()
                   /\ namespace # None
                   /\ NeedsLookup(image_tasks, namespace)
                   /\ calls' = Append(calls, FindCall(namespace, FALSE, None))
                   /\ mon' = "raised"
                   /\ UNCHANGED <<crash_table, image_tasks>>
                \/ \E lookup \in ImageTaskIds, ok \in BOOLEAN :
                     LET finds == IF namespace # None /\ NeedsLookup(image_tasks, namespace)
                                  THEN <<FindCall(namespace, TRUE, lookup)>>
                                  ELSE <<>>
                         cache == IF finds # <<>>
                                  THEN (namespace :> lookup) @@ image_tasks
                                  ELSE image_tasks
                         updates == AfterCreateTask(ok, reduction.crash)
                     IN  /\ image_tasks' = cache
                         /\ calls' = calls \o finds
                               \o <<[op |-> "createTask", crash |-> reduction.crash,
                                     worker |-> TC_QUEUES[r.os_name], env |-> r.env,
                                     image_task_id |-> IF namespace = None THEN None
                                                       ELSE cache[namespace],
                                     ok |-> ok]>>
                               \o updates
                         /\ crash_table' = ApplyUpdates(crash_table, updates)
                         /\ UNCHANGED mon

\* _get_unique_crashes takes a crash whose signature it has seen
SeenAgain ==
    /\ UNCHANGED <<cancelVars, taskVars, mapVars, loaderVars, listVars>>
    /\ mon = "unique"
    /\ fpos < Len(filtered)
    /\ LET crash == filtered[fpos + 1]
           sig == SigOf(crash)
       IN  /\ sig \in seen
           /\ randomize_crashes' =
                 [k \in 1..Len(randomize_crashes) |->
                     IF randomize_crashes[k].sig = sig
                     THEN [randomize_crashes[k] EXCEPT !.crashes = Append(@, crash)]
                     ELSE randomize_crashes[k]]
    /\ fpos' = fpos + 1
    /\ UNCHANGED <<mon, dry_run, crash_table, arrived, filtered, seen, rpos, selected,
                   calls, image_tasks>>

\* a new signature, random() < RANDOMIZE_CRASH_SELECT: the crash is held back
HoldForRandom ==
    /\ UNCHANGED <<cancelVars, taskVars, mapVars, loaderVars, listVars>>
    /\ mon = "unique"
    /\ fpos < Len(filtered)
    /\ LET crash == filtered[fpos + 1]
           sig == SigOf(crash)
       IN  /\ sig \notin seen
           /\ seen' = SeenAfterHold(seen, sig)
           /\ randomize_crashes' =
                 IF \E k \in 1..Len(randomize_crashes) : randomize_crashes[k].sig = sig
                 THEN [k \in 1..Len(randomize_crashes) |->
                         IF randomize_crashes[k].sig = sig
                         THEN [sig |-> sig, crashes |-> <<crash>>]
                         ELSE randomize_crashes[k]]
                 ELSE Append(randomize_crashes, [sig |-> sig, crashes |-> <<crash>>])
    /\ fpos' = fpos + 1
    /\ UNCHANGED <<mon, dry_run, crash_table, arrived, filtered, rpos, selected, calls,
                   image_tasks>>

\* a new signature, random() >= RANDOMIZE_CRASH_SELECT: yield (sig, crash),
\* and run() handles it
YieldNow ==
    /\ UNCHANGED <<cancelVars, taskVars, mapVars, loaderVars, listVars>>
    /\ mon = "unique"
    /\ fpos < Len(filtered)
    /\ LET crash == filtered[fpos + 1]
           sig == SigOf(crash)
       IN  /\ sig \notin seen
           /\ seen' = seen \cup {sig}
           /\ LoopBody(sig, crash)
    /\ fpos' = fpos + 1
    /\ UNCHANGED <<dry_run, arrived, filtered, randomize_crashes, rpos>>

\* the last loop of _get_unique_crashes: yield (sig, choice(crashes)), and
\* run() handles it
YieldChoice ==
    /\ UNCHANGED <<cancelVars, taskVars, mapVars, loaderVars, listVars>>
    /\ mon = "unique"
    /\ fpos = Len(filtered)
    /\ rpos < Len(randomize_crashes)
    /\ LET item == randomize_crashes[rpos + 1]
       IN  \E k \in 1..Len(item.crashes) : LoopBody(item.sig, item.crashes[k])
    /\ rpos' = rpos + 1
    /\ UNCHANGED <<dry_run, arrived, filtered, fpos, seen, randomize_crashes>>

\* _get_unique_crashes is exhausted: run() returns 0
RunReturns ==
    /\ UNCHANGED <<cancelVars, taskVars, mapVars, loaderVars, listVars>>
    /\ mon = "unique"
    /\ fpos = Len(filtered)
    /\ rpos = Len(randomize_crashes)
    /\ mon' = "returned"
    /\ UNCHANGED <<dry_run, crash_table, arrived, filtered, fpos, seen,
                   randomize_crashes, rpos, selected, calls, image_tasks>>

MonitorNext ==
    \/ RunPoll
    \/ SeenAgain
    \/ HoldForRandom
    \/ YieldNow
    \/ YieldChoice
    \/ RunReturns

\* a ReductionMonitor on which run() is called
InitMonitor ==
    MonitorInit /\ CancelIdle /\ TasksIdle /\ MapIdle /\ LoaderIdle /\ ListIdle

SpecMonitor == InitMonitor /\ [][MonitorNext]_vars

(***************************************************************************)
(* Part 8: ReductionMonitor.image_artifact_task                            *)
(***************************************************************************)
\* calls of image_artifact_task on one monitor
MaxImageCalls == 4

\* the namespaces queue_reduction_task asks for
Namespaces == { ImageNamespace("windows"), ImageNamespace("macosx") }

\* a call of image_artifact_task, as recorded in calls: the task id it
\* returned, None when it raised
ImageCall(namespace, result) ==
    [op |-> "image_artifact_task", namespace |-> namespace, result |-> result]

\* the calls of image_artifact_task made so far
ImageCalls == {k \in 1..Len(calls) : calls[k].op = "image_artifact_task"}

ImageInit ==
    /\ mon = "created"
    /\ dry_run = FALSE
    /\ crash_table = <<>>
    /\ arrived = <<>>
    /\ filtered = <<>>
    /\ fpos = 0
    /\ seen = {}
    /\ randomize_crashes = <<>>
    /\ rpos = 0
    /\ selected = <<>>
    /\ calls = <<>>
    /\ image_tasks = EmptyDict

\* image_artifact_task(namespace) for a namespace in the cache
ImageCached ==
    /\ UNCHANGED <<cancelVars, taskVars, mapVars, loaderVars, listVars>>
    /\ mon = "created"
    /\ Cardinality(ImageCalls) < MaxImageCalls
    /\ \E namespace \in Namespaces :
          /\ ~NeedsLookup(image_tasks, namespace)
          /\ calls' = Append(calls, ImageCall(namespace, image_tasks[namespace]))
    /\ UNCHANGED <<mon, dry_run, crash_table, arrived, filtered, fpos, seen,
                   randomize_crashes, rpos, selected, image_tasks>>

\* image_artifact_task(namespace): findTask returns and the task id is cached
ImageLookup ==
    /\ UNCHANGED <<cancelVars, taskVars, mapVars, loaderVars, listVars>>
    /\ mon = "created"
    /\ Cardinality(ImageCalls) < MaxImageCalls
    /\ \E namespace \in Namespaces, taskId \in ImageTaskIds :
          /\ NeedsLookup(image_tasks, namespace)
          /\ image_tasks' = (namespace :> taskId) @@ image_tasks
          /\ calls' = calls \o << FindCall(namespace, TRUE, taskId),
                                  ImageCall(namespace, image_tasks'[namespace]) >>
    /\ UNCHANGED <<mon, dry_run, crash_table, arrived, filtered, fpos, seen,
                   randomize_crashes, rpos, selected>>

\* image_artifact_task(namespace): findTask raises, and so does the call
ImageLookupRaises ==
    /\ UNCHANGED <<cancelVars, taskVars, mapVars, loaderVars, listVars>>
    /\ mon = "created"
    /\ Cardinality(ImageCalls) < MaxImageCalls
    /\ \E namespace \in Namespaces :
          /\ NeedsLookup(image_tasks, namespace)
          /\ calls' = calls \o << FindCall(namespace, FALSE, None),
                                  ImageCall(namespace, None) >>
    /\ UNCHANGED <<mon, dry_run, crash_table, arrived, filtered, fpos, seen,
                   randomize_crashes, rpos, selected, image_tasks>>

ImageNext ==
    \/ ImageCached
    \/ ImageLookup
    \/ ImageLookupRaises

\* a ReductionMonitor on which image_artifact_task is called
InitImage ==
    ImageInit /\ CancelIdle /\ TasksIdle /\ MapIdle /\ LoaderIdle /\ ListIdle

SpecImage == InitImage /\ [][ImageNext]_vars

(***************************************************************************)
(* Properties of build_tasks                                               *)
(***************************************************************************)
Declared == pool.preprocess # PyNone

NameOf(k) == emitted[k].task.name

IsPreprocessName(k) == NameOf(k).label = [stage |-> "preprocess"]

PreprocessFlag == "TASKCLUSTER_FUZZING_PREPROCESS"

C10_PreprocessFirst ==
    /\ Declared =>
          /\ gen = "done" => Len(emitted) = 1 + pool.tasks
          /\ gen = "tasks" => Len(emitted) = 1 + loop_i
          /\ \A k \in 1..Len(emitted) :
                IF k = 1
                THEN /\ IsPreprocessName(k)
                     /\ emitted[k].task.dependencies = <<parent_task_id>>
                     /\ PreprocessFlag \in DOMAIN emitted[k].task.payload.env
                     /\ emitted[k].task.payload.env[PreprocessFlag] = "1"
                ELSE /\ NameOf(k).label = [i |-> k - 1, n |-> pool.tasks]
                     /\ emitted[k].task.dependencies =
                            <<parent_task_id, emitted[1].task_id>>
                     /\ PreprocessFlag \notin DOMAIN emitted[k].task.payload.env
    /\ ~Declared => \A k \in 1..Len(emitted) : ~IsPreprocessName(k)

\* a finished build: the preprocess task, then two work tasks
C10_Witness ==
    /\ gen = "done"
    /\ Declared
    /\ Len(emitted) = 3
    /\ env # PyNone

\* the configuration a descriptor is built from: the preprocess configuration
\* for the preprocess task, the pool itself for a work task
ConfOf(k) == IF IsPreprocessName(k) THEN pool.preprocess ELSE pool

\* C11: every emitted task descriptor has created < deadline and
\* deadline <= expires (every pool of the model has max_run_time > 0).
C11_CreatedDeadlineExpires ==
    \A k \in 1..Len(emitted) :
        /\ ConfOf(k).max_run_time > 0
        /\ emitted[k].task.created < emitted[k].task.deadline
        /\ emitted[k].task.deadline <= emitted[k].task.expires

\* C12: the artifact map of every emitted task has one entry per artifact its
\* configuration declares, under the remote name and with the local path and
\* the type declared, plus the entry of the log directory, and so exactly
\* (declared artifacts + 1) entries; every entry expires when the task does.
C12_ArtifactMap ==
    \A k \in 1..Len(emitted) :
        LET task == emitted[k].task
            declared == ConfOf(k).artifacts
            map == task.payload.artifacts
        IN  /\ Cardinality(DOMAIN map) = Cardinality(DOMAIN declared) + 1
            /\ "project/fuzzing/private/logs" \in DOMAIN map
            /\ \A local_path \in DOMAIN declared :
                  /\ declared[local_path].url \in DOMAIN map
                  /\ map[declared[local_path].url].path = local_path
                  /\ map[declared[local_path].url].type = declared[local_path].type
            /\ \A u \in DOMAIN map : map[u].expires = task.expires

\* a finished build: a preprocess task with one declared artifact, work tasks
\* with two
C12_Witness ==
    /\ gen = "done"
    /\ Declared
    /\ Cardinality(DOMAIN pool.preprocess.artifacts) = 1
    /\ Cardinality(DOMAIN pool.artifacts) = 2
    /\ Len(emitted) >= 2

\* the scopes of the model in ascending order (by code point, as sorted() does)
ScopeOrder ==
    << "docker-worker:capability:device:gpu",
       "docker-worker:capability:device:kvm",
       "docker-worker:capability:device:loopbackVideo",
       "docker-worker:capability:privileged",
       "secrets:get:project/fuzzing/decision" >>

ScopeRank(scope) == CHOOSE i \in 1..Len(ScopeOrder) : ScopeOrder[i] = scope

\* C13: the scopes of every emitted task are the union of the scopes of its
\* configuration and the secret-read scope, in ascending order and without
\* duplicates.
C13_SortedUnionOfScopes ==
    \A k \in 1..Len(emitted) :
        LET scopes == emitted[k].task.scopes
        IN  /\ {scopes[i] : i \in 1..Len(scopes)} =
                  {ConfOf(k).scopes[i] : i \in 1..Len(ConfOf(k).scopes)}
                    \cup {"secrets:get:project/fuzzing/decision"}
            /\ \A i, j \in 1..Len(scopes) :
                  i < j => ScopeRank(scopes[i]) < ScopeRank(scopes[j])

\* the task of the hook build_resources returned
HookTask == resources[2].task

HasDevice(task, d) ==
    /\ "capabilities" \in DOMAIN task.payload
    /\ "devices" \in DOMAIN task.payload.capabilities
    /\ d \in DOMAIN task.payload.capabilities["devices"]
    /\ task.payload.capabilities["devices"][d] = TRUE

HasPrivileged(task) ==
    /\ "capabilities" \in DOMAIN task.payload
    /\ "privileged" \in DOMAIN task.payload.capabilities
    /\ task.payload.capabilities["privileged"] = TRUE

HasScope(task, scope) == \E i \in 1..Len(task.scopes) : task.scopes[i] = scope

CapabilitiesMatchScopes(task) ==
    /\ \A d \in {"cpu", "hostSharedMemory", "loopbackAudio", "loopbackVideo", "kvm"} :
          HasDevice(task, d) <=> HasScope(task, "docker-worker:capability:device:" \o d)
    /\ HasPrivileged(task) <=> HasScope(task, "docker-worker:capability:privileged")
    /\ DOMAIN task.payload.capabilities \subseteq {"devices", "privileged"}
    /\ "devices" \in DOMAIN task.payload.capabilities =>
          DOMAIN task.payload.capabilities["devices"] \subseteq
              {"cpu", "hostSharedMemory", "loopbackAudio", "loopbackVideo", "kvm"}

\* C14: for every task (emitted by build_tasks, or the decision task of the
\* hook) and every known device d, capabilities.devices[d] is true exactly when
\* the task's scopes contain docker-worker:capability:device:<d>, and
\* capabilities.privileged is true exactly when they contain
\* docker-worker:capability:privileged; there is no other flag.
C14_CapabilitiesFollowScopes ==
    /\ \A k \in 1..Len(emitted) : CapabilitiesMatchScopes(emitted[k].task)
    /\ res = "returned" => CapabilitiesMatchScopes(HookTask)

\* a work task and a decision task with the privileged and the kvm scope, a
\* preprocess task with the kvm scope alone
C14_Witness ==
    /\ gen = "done"
    /\ res = "returned"
    /\ Declared
    /\ HasScope(emitted[1].task, "docker-worker:capability:device:kvm")
    /\ ~HasPrivileged(emitted[1].task)
    /\ HasDevice(emitted[2].task, "kvm")
    /\ HasPrivileged(emitted[2].task)
    /\ HasPrivileged(HookTask)

NoCapabilityScope(task) ==
    /\ ~HasScope(task, "docker-worker:capability:privileged")
    /\ \A d \in {"cpu", "hostSharedMemory", "loopbackAudio", "loopbackVideo", "kvm"} :
          ~HasScope(task, "docker-worker:capability:device:" \o d)

\* C15: a task (work task, preprocess task or decision task) whose scopes hold
\* no device-capability scope and no privileged scope has no capabilities key
\* in its payload.
C15_NoEmptyCapabilities ==
    /\ \A k \in 1..Len(emitted) :
          NoCapabilityScope(emitted[k].task) =>
              "capabilities" \notin DOMAIN emitted[k].task.payload
    /\ (res = "returned" /\ NoCapabilityScope(HookTask)) =>
          "capabilities" \notin DOMAIN HookTask.payload

\* the reserved env of the k-th emitted descriptor
ReservedOf(k) ==
    IF IsPreprocessName(k)
    THEN [TASKCLUSTER_FUZZING_POOL |-> pool.pool_id,
          TASKCLUSTER_SECRET |-> "project/fuzzing/decision",
          TASKCLUSTER_FUZZING_PREPROCESS |-> "1"]
    ELSE [TASKCLUSTER_FUZZING_POOL |-> pool.pool_id,
          TASKCLUSTER_SECRET |-> "project/fuzzing/decision"]

\* the reserved env keys of the tasks build_tasks builds for the pool
ReservedTaskKeys ==
    {"TASKCLUSTER_FUZZING_POOL", "TASKCLUSTER_SECRET"}
      \cup (IF Declared THEN {"TASKCLUSTER_FUZZING_PREPROCESS"} ELSE {})

\* e is exactly the reserved entries plus the caller's
IsReservedPlusEnv(e, reserved) ==
    IF env = PyNone
    THEN e = reserved
    ELSE /\ DOMAIN reserved \cap DOMAIN env = {}
         /\ DOMAIN e = DOMAIN reserved \cup DOMAIN env
         /\ \A key \in DOMAIN reserved : e[key] = reserved[key]
         /\ \A key \in DOMAIN env : e[key] = env[key]

\* C16: with an env that shares a key with the reserved keys, build_tasks
\* emits no descriptor and never finishes, and build_resources returns no
\* resource; the env of every emitted task and of a returned decision task is
\* exactly the reserved entries, unchanged, plus the caller's entries.
C16_EnvDisjointOrFail ==
    /\ (env # PyNone /\ DOMAIN env \cap ReservedTaskKeys # {}) =>
          emitted = <<>> /\ gen # "done"
    /\ (env # PyNone /\ "TASKCLUSTER_SECRET" \in DOMAIN env) =>
          res # "returned" /\ resources = PyNone
    /\ \A k \in 1..Len(emitted) :
          IsReservedPlusEnv(emitted[k].task.payload.env, ReservedOf(k))
    /\ res = "returned" =>
          IsReservedPlusEnv(HookTask.payload.env,
                            [TASKCLUSTER_SECRET |-> "project/fuzzing/decision"])

\* both operations were called with an env that names a reserved key, and failed
C16_Witness ==
    /\ env # PyNone
    /\ "TASKCLUSTER_SECRET" \in DOMAIN env
    /\ gen = "raised"
    /\ res = "raised"
    /\ emitted = <<>>

(***************************************************************************)
(* Properties of build_resources                                           *)
(***************************************************************************)
\* the config of the worker pool build_resources returned
PoolConfig == resources[1].config

OfPool == res = "returned" /\ pool # PyNone

OfMap == res = "returned" /\ poolmap # PyNone

\* ceil(max_run_time / cycle_time) of the pool
Cycles == (pool.max_run_time + pool.cycle_time - 1) \div pool.cycle_time

\* C17: the worker pool of a PoolConfiguration has
\* maxCapacity = ceil(max_run_time / cycle_time) * tasks * 2 and minCapacity 0.
C17_MaxCapacityFormula ==
    OfPool =>
        /\ PoolConfig.maxCapacity = Cycles * pool.tasks * 2
        /\ PoolConfig.minCapacity = 0

\* sum of tasks over the first n target pools of the map
RECURSIVE TargetTasks(_)
TargetTasks(n) ==
    IF n = 0 THEN 0 ELSE poolmap.targets[n].tasks + TargetTasks(n - 1)

\* C18: the worker pool of a PoolConfigMap has maxCapacity = max(2 * (sum of
\* tasks over all its target pools), 3) and minCapacity 0.
C18_MapMaxCapacity ==
    OfMap =>
        LET total == TargetTasks(Len(poolmap.targets))
        IN  /\ PoolConfig.maxCapacity = IF 2 * total >= 3 THEN 2 * total ELSE 3
            /\ PoolConfig.minCapacity = 0

\* the resources of a map of two target pools, of two tasks and of one task
C18_Witness ==
    /\ OfMap
    /\ Len(poolmap.targets) = 2
    /\ poolmap.targets[1].tasks = 2
    /\ poolmap.targets[2].tasks = 1
    /\ PoolConfig.maxCapacity = 6

\* C19: the maxCapacity of a PoolConfiguration is at least
\* (ceil(max_run_time / cycle_time) + 1) * tasks.
C19_RoomForExtraCycle ==
    OfPool => PoolConfig.maxCapacity >= (Cycles + 1) * pool.tasks

\* the resources of a pool of three tasks that run over three cycles
C19_Witness ==
    /\ OfPool
    /\ pool.tasks = 3
    /\ Cycles = 3

\* the scopes declared by the pool, or by the target pools of the map
DeclaredScopes ==
    IF pool # PyNone
    THEN {pool.scopes[i] : i \in 1..Len(pool.scopes)}
    ELSE UNION { {poolmap.targets[n].scopes[i] : i \in 1..Len(poolmap.targets[n].scopes)}
                   : n \in 1..Len(poolmap.targets) }

\* the four mandatory scopes of the decision task of worker type w
MandatoryScopes(w) ==
    { "queue:scheduler-id:" \o SCHEDULER_ID,
      "queue:cancel-task:" \o SCHEDULER_ID \o "/*",
      "queue:create-task:highest:" \o PROVISIONER_ID \o "/" \o w,
      "secrets:get:project/fuzzing/decision" }

\* C20: the scopes of the decision task and of the role both contain the four
\* mandatory scopes and every declared scope, and the role id is
\* hook-id:<hook group>/<hook id> of the hook.
C20_MandatoryScopes ==
    res = "returned" =>
        LET hook == resources[2]
            role == resources[3]
            wanted == MandatoryScopes(hook.task.workerType) \cup DeclaredScopes
        IN  /\ wanted \subseteq {hook.task.scopes[i] : i \in 1..Len(hook.task.scopes)}
            /\ wanted \subseteq {role.scopes[i] : i \in 1..Len(role.scopes)}
            /\ role.roleId = "hook-id:" \o hook.hookGroupId \o "/" \o hook.hookId

(***************************************************************************)
(* Properties of cancel_tasks                                              *)
(***************************************************************************)
\* the task ids passed to queue.cancelTask, in call order
CancelledIds == [k \in 1..Len(cancelCalls) |-> cancelCalls[k].taskId]

\* the firing whose task group the i-th served task was listed in
FiringOf(i) == lastFires[served[i].group]

\* the self task was listed in the group of a firing fired by the schedule
SelfInScheduled ==
    \E i \in 1..Len(served) :
        served[i].taskId = self_task_id /\ FiringOf(i).firedBy = "schedule"

\* the self task was listed in the group of a firing fired by something else
SelfInManual ==
    \E i \in 1..Len(served) :
        served[i].taskId = self_task_id /\ FiringOf(i).firedBy # "schedule"

IsOtherActive(e) == e.taskId # self_task_id /\ e.active

\* the ids of the served tasks, other than the self task, with a pending or
\* running run, in the order served
OtherActiveIds ==
    LET sel == SelectSeq(served, IsOtherActive)
    IN  [k \in 1..Len(sel) |-> sel[k].taskId]

Count(seq, x) == Cardinality({k \in 1..Len(seq) : seq[k] = x})

IsPrefix(a, b) == Len(a) <= Len(b) /\ \A k \in 1..Len(a) : a[k] = b[k]

\* C1: once the self task has been listed in the task group of a successful
\* firing fired by the schedule, the sweep has returned and has issued no
\* cancelTask call, whatever was selected before the self task came up.
C1_ScheduledSelfCancelsNothing ==
    SelfInScheduled =>
        /\ pc = "returned"
        /\ exc = NoExc
        /\ cancelCalls = <<>>

\* a pending or running task was selected, then the self task came up in a
\* scheduled firing
C1_Witness ==
    /\ SelfInScheduled
    /\ pc = "returned"
    /\ tasks_to_cancel # <<>>
    /\ served[1].taskId # self_task_id
    /\ served[1].active

\* C2: a sweep that met the self task only in firings not fired by the
\* schedule, once it has returned, has called cancelTask for every other
\* listed task with a pending or running run, in the order listed, and never
\* for the self task.
C2_ManualSelfCancelsOthers ==
    (pc = "returned" /\ SelfInManual /\ ~SelfInScheduled) =>
        /\ CancelledIds = OtherActiveIds
        /\ \A k \in 1..Len(cancelCalls) : cancelCalls[k].taskId # self_task_id

\* the self task is itself running, and another running task was cancelled
C2_Witness ==
    /\ pc = "returned"
    /\ SelfInManual
    /\ ~SelfInScheduled
    /\ \E i \in 1..Len(served) : served[i].taskId = self_task_id /\ served[i].active
    /\ cancelCalls # <<>>

\* C3: every cancelTask call is for a task that was listed, with a pending or
\* running run, in the task group of a firing whose result is success: per
\* task id there are no more cancelTask calls than such listings, and only
\* groups of successful firings are ever listed.
C3_CancelOnlyActiveOfSuccessfulFirings ==
    /\ \A k \in 1..Len(listCalls) : lastFires[listCalls[k].group].result = "success"
    /\ \A x \in TaskIds :
          Count(CancelledIds, x) <=
              Cardinality({i \in 1..Len(served) :
                              /\ served[i].taskId = x
                              /\ served[i].active
                              /\ FiringOf(i).result = "success"})

\* a sweep that cancelled one task and left alone a listed task without a
\* pending or running run, while a firing that did not succeed was skipped
C3_Witness ==
    /\ pc = "returned"
    /\ Len(cancelCalls) = 1
    /\ \E i \in 1..Len(served) : ~served[i].active /\ served[i].taskId # self_task_id
    /\ \E g \in 1..Len(lastFires) : lastFires[g].result # "success"

\* C4: the cancellation loop attempts the selected ids one by one in selection
\* order; a failed attempt neither raises nor ends the loop, so a sweep that
\* returned without the scheduled-self abort attempted every selected id.
C4_EverySelectedTaskAttempted ==
    /\ IsPrefix(CancelledIds, tasks_to_cancel)
    /\ cancelCalls # <<>> => (pc \in {"cancel", "returned"} /\ exc = NoExc)
    /\ (pc = "returned" /\ ~SelfInScheduled) => CancelledIds = tasks_to_cancel
    /\ (pc = "cancel" /\ Len(cancelCalls) < Len(tasks_to_cancel)) => ENABLED CancelTask

\* two tasks were selected, the first cancelTask failed, the second was made
C4_Witness ==
    /\ pc = "returned"
    /\ Len(cancelCalls) = 2
    /\ ~cancelCalls[1].ok
    /\ cancelCalls[1].taskId # cancelCalls[2].taskId

\* C5: a "No task-group" failure of a listTaskGroup call, for the first page
\* or for a continuation page, never leaves cancel_tasks.
C5_NoTaskGroupSwallowed ==
    ~(/\ pc = "raised"
      /\ failures[Len(failures)].op = "listTaskGroup"
      /\ failures[Len(failures)].msg = NoTaskGroup)

\* C6: after listLastFires failed with "No such hook" the sweep lists no task
\* group, selects nothing, calls cancelTask never and does not raise.
C6_NoSuchHookEndsSweep ==
    (/\ failures # <<>>
     /\ failures[1].op = "listLastFires"
     /\ failures[1].msg = NoSuchHook) =>
        /\ pc \in {"cancel", "returned"}
        /\ exc = NoExc
        /\ listCalls = <<>>
        /\ tasks_to_cancel = <<>>
        /\ cancelCalls = <<>>
        /\ pc = "cancel" => ENABLED CancelDone

C6_Witness ==
    /\ pc = "returned"
    /\ failures # <<>>
    /\ failures[1].op = "listLastFires"
    /\ failures[1].msg = NoSuchHook

\* C7: a failure of listLastFires or listTaskGroup that is neither "No such
\* hook" nor "No task-group" leaves cancel_tasks as it is, and no cancelTask
\* call was made before it or is made after it.
C7_OtherFailuresPropagate ==
    \A i \in 1..Len(failures) :
        failures[i].msg = "other" =>
            /\ i = Len(failures)
            /\ pc = "raised"
            /\ exc = [cls |-> failures[i].cls, msg |-> failures[i].msg]
            /\ cancelCalls = <<>>

\* tasks were already selected when a continuation call failed
C7_Witness ==
    /\ pc = "raised"
    /\ exc.msg = "other"
    /\ tasks_to_cancel # <<>>
    /\ Len(listCalls) = 2
    /\ listCalls[2].token # NoToken

\* the served tasks as the generator must yield them
TaggedServed ==
    [i \in 1..Len(served) |->
        [taskId |-> served[i].taskId,
         scheduled |-> FiringOf(i).firedBy = "schedule"]]

\* discovery ran to its end: the generator was exhausted, not left early
DiscoveryComplete ==
    /\ pc \in {"cancel", "returned"}
    /\ ~SelfInScheduled
    /\ \A i \in 1..Len(failures) : failures[i].msg # NoSuchHook

\* C8: every listTaskGroup call after a response that carried a continuation
\* token is for the same group with exactly that token, and a call after a
\* response without one (or after a swallowed failure) is the first call for a
\* later firing; firings are left only when the response carries no token;
\* the pairs the selection loop received are the tasks of the pages, each
\* once, in order, tagged with whether their own firing was fired by the
\* schedule (all of them, unless the loop returned at a scheduled self task).
C8_Expansion ==
    /\ \A k \in 1..Len(listCalls) :
          IF k > 1 /\ listCalls[k - 1].next # NoToken
          THEN /\ listCalls[k].group = listCalls[k - 1].group
               /\ listCalls[k].token = listCalls[k - 1].next
          ELSE /\ listCalls[k].token = NoToken
               /\ k > 1 => listCalls[k].group > listCalls[k - 1].group
    /\ IsPrefix(candidates, TaggedServed)
    /\ ~SelfInScheduled => candidates = TaggedServed
    /\ DiscoveryComplete =>
          /\ listCalls # <<>> => listCalls[Len(listCalls)].next = NoToken
          /\ \A g \in 1..Len(lastFires) :
                lastFires[g].result = "success" =>
                    \E k \in 1..Len(listCalls) : listCalls[k].group = g

\* a firing of two pages, a task on each, both received by the loop
C8_Witness ==
    /\ DiscoveryComplete
    /\ Len(listCalls) = 2
    /\ listCalls[2].token # NoToken
    /\ Len(candidates) = 2
    /\ served[1].group = served[2].group

\* the self task was never listed: TASK_ID is unset, or no task group of a
\* successful firing held the self task
SelfNeverListed ==
    \/ self_task_id = None
    \/ \A i \in 1..Len(served) : served[i].taskId # self_task_id

IsActive(e) == e.active

\* the ids of all the served tasks with a pending or running run, in the
\* order served
ActiveIds ==
    LET sel == SelectSeq(served, IsActive)
    IN  [k \in 1..Len(sel) |-> sel[k].taskId]

\* C29: when TASK_ID is unset or the self task was listed in no task group of
\* a successful firing, the sweep never returns before its cancellation loop,
\* and once it has returned it has called cancelTask for every listed task
\* with a pending or running run, in the order listed, the tasks of firings
\* fired by the schedule included.
C29_NoSelfCancelsEveryActive ==
    SelfNeverListed =>
        /\ pc = "returned" => CancelledIds = ActiveIds
        /\ pc \notin {"cancel", "returned", "raised"} =>
              tasks_to_cancel = ActiveIds

\* TASK_ID is unset and a running task of a firing fired by the schedule was
\* cancelled
C29_Witness ==
    /\ pc = "returned"
    /\ self_task_id = None
    /\ \E i \in 1..Len(served) :
          /\ served[i].active
          /\ FiringOf(i).firedBy = "schedule"
          /\ \E k \in 1..Len(cancelCalls) : cancelCalls[k].taskId = served[i].taskId

\* the turns of the nested loops of PoolConfigMap.build_tasks, in order: the
\* index of the target in apply_to order and i within 1..pool.tasks
RECURSIVE TurnsFrom(_, _)
TurnsFrom(pools, p) ==
    IF p > Len(pools)
    THEN <<>>
    ELSE [i \in 1..pools[p].tasks |-> [p |-> p, i |-> i]] \o TurnsFrom(pools, p + 1)

\* the k-th emitted descriptor is task turn.i of the target turn.p of the map
IsTaskOfTurn(task, turn) ==
    LET target == poolmap.targets[turn.p]
    IN  /\ task.name = [task_id |-> target.platform \o "-" \o target.pool_id,
                        label |-> [i |-> turn.i, n |-> target.tasks]]
        /\ task.payload.image = target.container
        /\ task.payload.maxRunTime = target.max_run_time
        /\ task.payload.env.TASKCLUSTER_FUZZING_POOL = target.pool_id
        /\ task.dependencies = <<parent_task_id>>
        /\ task.taskGroupId = parent_task_id
        /\ task.workerType = poolmap.platform \o "-" \o poolmap.pool_id

\* C25: PoolConfigMap.build_tasks(parent) emits the tasks of the target pools
\* in apply_to order, i = 1..pool.tasks for each: the k-th descriptor is
\* named after its target's platform-id and i/pool.tasks, has that target's
\* container, max_run_time and pool id (env), depends on parent and has the
\* map's own task_id as workerType; when the generator ends there are exactly
\* as many descriptors as the sum of tasks over the targets.
C25_MapTasks ==
    LET turns == TurnsFrom(poolmap.targets, 1)
    IN  /\ Len(emitted) <= Len(turns)
        /\ \A k \in 1..Len(emitted) : IsTaskOfTurn(emitted[k].task, turns[k])
        /\ gen = "done" =>
              /\ Len(emitted) = SumTasks(poolmap.targets)
              /\ Len(emitted) = Len(turns)

\* a map over two different targets, two tasks each, was built to the end,
\* and the worker type of its tasks is not that of their own pool
C25_Witness ==
    /\ gen = "done"
    /\ Len(poolmap.targets) = 2
    /\ poolmap.targets[1].pool_id # poolmap.targets[2].pool_id
    /\ poolmap.targets[1].tasks >= 2
    /\ Len(emitted) = poolmap.targets[1].tasks + poolmap.targets[2].tasks
    /\ \A k \in 1..Len(emitted) :
          emitted[k].task.workerType # emitted[k].task.name.task_id

\* from_file has returned or raised
Loaded == loaded # None \/ load_exc # None

\* the document of pool_yml fits the schema of cls
DocFits(cls) ==
    /\ Schemas[cls].REQUIRED_FIELDS \subseteq pool_yml.keys
    /\ pool_yml.keys \subseteq Schemas[cls].FIELD_TYPES

C21_WitnessMap ==
    /\ pool_yml.is_file
    /\ "apply_to" \in pool_yml.keys
    /\ loaded = "PoolConfigMap"

\* the records of the responses received so far, page after page
RECURSIVE RecordsOf(_)
RecordsOf(resps) ==
    IF resps = <<>> THEN <<>> ELSE Head(resps).results \o RecordsOf(Tail(resps))

\* the response asks for a further request: a dict with a non-empty "next"
HasNext(resp) == resp.kind = "dict" /\ resp.next # None /\ resp.next # ""

\* C24: _list_objs requests the endpoint url first and then the "next" url of
\* the response before; the query, ordering and limit parameters go with the
\* first request only; the records yielded are those of every response, once
\* each, in page order; every response but the last is a dict with a
\* non-empty "next", and the generator ends exactly after a bare list or a
\* dict whose "next" is empty, whatever the "count" fields say.
C24_FollowsNextCursor ==
    /\ yielded = RecordsOf(responses)
    /\ Len(responses) = Len(requests)
    /\ \A k \in 1..Len(requests) :
          /\ k = 1 =>
                /\ requests[k].url = "https://host:443/crashmanager/rest/"
                                        \o list_call.endpoint \o "/"
                /\ "limit" \in DOMAIN requests[k].params
                /\ requests[k].params["limit"] = 1000
                /\ ("query" \in DOMAIN requests[k].params) = (list_call.query # PyNone)
                /\ ("ordering" \in DOMAIN requests[k].params) = (list_call.ordering # PyNone)
                /\ list_call.ordering # PyNone =>
                      requests[k].params["ordering"] = "testcase__size,-id"
          /\ k > 1 =>
                /\ requests[k].url = responses[k - 1].next
                /\ requests[k].params = PyNone
          /\ k < Len(requests) => HasNext(responses[k])
    /\ listing = "done" =>
          /\ responses # <<>>
          /\ ~HasNext(responses[Len(responses)])
          /\ responses[Len(responses)].kind \in {"dict", "list"}
    /\ (listing = "loop" /\ responses # <<>> /\ Len(requests) < MaxRequests) =>
          (next_url \in {None, ""}) = ~HasNext(responses[Len(responses)])

\* two pages were followed by a bare list; the first page held two records
\* and claimed a count of none
C24_Witness ==
    /\ listing = "done"
    /\ Len(responses) = 3
    /\ responses[1].kind = "dict" /\ responses[1].count = 0
    /\ Len(responses[1].results) = 2
    /\ responses[3].kind = "list"
    /\ Len(yielded) >= 4

\* the crash of this poll with the given id, as it arrived
ArrivedCrash(id) == arrived[CHOOSE k \in 1..Len(arrived) : arrived[k].crash = id]

\* the tag of the crash c is shared by an arrived crash of quality below
\* UNREDUCED
TagIsReducing(c) ==
    \E k \in 1..Len(arrived) :
        /\ arrived[k].bucket = c.bucket
        /\ arrived[k].tool = c.tool
        /\ arrived[k].description = c.description
        /\ arrived[k].quality < 5

\* C26: of the crashes of one poll, _filter_reducing_unbucketed yields none
\* whose tag (bucket, tool, description) is shared by a crash of quality
\* below UNREDUCED of the same poll, in whatever order they arrived, and
\* yields exactly once every crash of quality UNREDUCED or above whose tag
\* no such crash shares.
C26_FilterDropsReducingTags ==
    mon # "created" =>
        /\ \A k \in 1..Len(filtered) :
              /\ ~TagIsReducing(filtered[k])
              /\ \E j \in 1..Len(arrived) : arrived[j] = filtered[k]
        /\ \A j \in 1..Len(arrived) :
              (arrived[j].quality >= 5 /\ ~TagIsReducing(arrived[j])) =>
                  Cardinality({k \in 1..Len(filtered) : filtered[k] = arrived[j]}) = 1

\* an unreduced crash arrived before a reducing crash of its tag and was not
\* yielded, while a crash of another tag was
C26_Witness ==
    /\ mon # "created"
    /\ Len(filtered) = 1
    /\ \E j, k \in 1..Len(arrived) :
          /\ j < k
          /\ arrived[j].quality = 5
          /\ arrived[k].quality = 4
          /\ arrived[j].bucket = arrived[k].bucket
          /\ arrived[j].description = arrived[k].description

\* the signature of a crash: tool, bucket, description and quality
Signature(c) == <<c.tool, c.bucket, c.description, c.quality>>

\* C27: in a poll that ran to its end, for every distinct signature (tool,
\* bucket, description, quality) among the filtered crashes exactly one
\* (signature, crash) pair was yielded, and at any time no signature was
\* yielded twice and every yielded crash is a filtered crash that carries
\* the signature it was yielded with, whatever the random choices were.
C27_OnePairPerSignature ==
    /\ \A k \in 1..Len(selected) :
          /\ \E j \in 1..Len(filtered) : filtered[j] = selected[k].crash
          /\ selected[k].sig =
                selected[k].crash.tool \o ":"
                  \o (IF selected[k].crash.bucket = NoBucket THEN "None" ELSE "1234")
                  \o ":" \o selected[k].crash.description \o ":"
                  \o (IF selected[k].crash.quality = 5 THEN "5" ELSE "6")
          /\ \A j \in 1..Len(selected) :
                Signature(selected[j].crash) = Signature(selected[k].crash) => j = k
    /\ mon = "returned" =>
          \A j \in 1..Len(filtered) :
              Cardinality({k \in 1..Len(selected) :
                  Signature(selected[k].crash) = Signature(filtered[j])}) = 1

\* of two filtered crashes with one signature, the later one was yielded
C27_Witness ==
    /\ mon = "returned"
    /\ Len(selected) = 2
    /\ \E j, k \in 1..Len(filtered) :
          /\ j < k
          /\ Signature(filtered[j]) = Signature(filtered[k])
          /\ selected[2].crash = filtered[k]

\* the createTask calls made for the crash with the given id
CreateCalls(id) ==
    {k \in 1..Len(calls) : calls[k].op = "createTask" /\ calls[k].crash = id}

\* the update_testcase_quality calls made for the crash with the given id
UpdateCalls(id, quality) ==
    {k \in 1..Len(calls) :
        /\ calls[k].op = "update_testcase_quality"
        /\ calls[k].crash = id
        /\ calls[k].quality = quality}

\* the index lookup made for the crash failed and ended run()
LookupFailedFor(c) ==
    /\ mon = "raised"
    /\ selected[Len(selected)].crash = c

\* C28: in a run that is not a dry run, every selected crash of quality
\* UNREDUCED is queued on the generic linux queue, with NO_REPRO_QUALITY =
\* REQUEST_SPECIFIC exactly when its os is windows, the one os with a queue
\* of its own; a selected crash of another quality is queued on the windows
\* queue when its os is windows, and is otherwise marked NOT_REPRODUCIBLE and
\* not queued; no crash is both queued and marked NOT_REPRODUCIBLE, and none
\* is queued twice.
C28_Routing ==
    ~dry_run =>
        /\ \A k \in 1..Len(selected) :
              LET c == selected[k].crash
                  made == CreateCalls(c.crash)
              IN  IF c.quality = 5
                  THEN /\ Cardinality(made) = 1
                       /\ \A i \in made :
                             /\ calls[i].worker = "grizzly-reduce-worker"
                             /\ c.os = "windows" =>
                                   /\ DOMAIN calls[i].env = {"NO_REPRO_QUALITY"}
                                   /\ calls[i].env["NO_REPRO_QUALITY"] = "6"
                             /\ c.os # "windows" => DOMAIN calls[i].env = {}
                  ELSE IF c.os = "windows"
                  THEN /\ Cardinality(made) = IF LookupFailedFor(c) THEN 0 ELSE 1
                       /\ \A i \in made :
                             /\ calls[i].worker = "grizzly-reduce-worker-windows"
                             /\ DOMAIN calls[i].env = {}
                  ELSE /\ made = {}
                       /\ Cardinality(UpdateCalls(c.crash, 10)) = 1
        /\ \A k \in 1..Len(calls) :
              calls[k].op = "createTask" =>
                  /\ UpdateCalls(calls[k].crash, 10) = {}
                  /\ Cardinality(CreateCalls(calls[k].crash)) = 1
                  /\ \E j \in 1..Len(selected) : selected[j].crash.crash = calls[k].crash

\* an unreduced windows crash was queued on the linux queue with
\* NO_REPRO_QUALITY, a Q6 windows crash on the windows queue, and a selected
\* Q6 linux crash was marked NOT_REPRODUCIBLE
C28_Witness ==
    /\ mon = "returned"
    /\ ~dry_run
    /\ \E i, j \in 1..Len(calls) :
          /\ calls[i].op = "createTask"
          /\ calls[i].worker = "grizzly-reduce-worker"
          /\ DOMAIN calls[i].env = {"NO_REPRO_QUALITY"}
          /\ calls[j].op = "createTask"
          /\ calls[j].worker = "grizzly-reduce-worker-windows"
    /\ \E k \in 1..Len(selected) :
          /\ selected[k].crash.quality = 6
          /\ selected[k].crash.os = "linux"
          /\ UpdateCalls(selected[k].crash.crash, 10) # {}

\* C22: a REDUCING update for a crash directly follows a createTask call for
\* that crash that succeeded; after a createTask that failed with a
\* TaskclusterFailure there is no second createTask and no quality update for
\* that crash, the crash keeps its quality, run() is not left by the failure,
\* and a run that returned has queued every other selected crash that was to
\* be queued.
C22_ReducingOnlyAfterCreateTask ==
    /\ \A k \in 1..Len(calls) :
          (calls[k].op = "update_testcase_quality" /\ calls[k].quality = 4) =>
              /\ k > 1
              /\ calls[k - 1].op = "createTask"
              /\ calls[k - 1].crash = calls[k].crash
              /\ calls[k - 1].ok
    /\ \A k \in 1..Len(calls) :
          (calls[k].op = "createTask" /\ ~calls[k].ok) =>
              /\ CreateCalls(calls[k].crash) = {k}
              /\ \A j \in 1..Len(calls) :
                    calls[j].op = "update_testcase_quality" =>
                        calls[j].crash # calls[k].crash
              /\ crash_table[calls[k].crash].quality
                    = ArrivedCrash(calls[k].crash).quality
              /\ k = Len(calls) => mon # "raised"
    /\ (mon = "returned" /\ ~dry_run) =>
          \A k \in 1..Len(selected) :
              (selected[k].crash.quality = 5 \/ selected[k].crash.os = "windows") =>
                  CreateCalls(selected[k].crash.crash) # {}

\* createTask failed for the first selected crash and run() went on to queue
\* the second and returned
C22_Witness ==
    /\ mon = "returned"
    /\ Len(selected) >= 2
    /\ \E i, j \in 1..Len(calls) :
          /\ i < j
          /\ calls[i].op = "createTask" /\ ~calls[i].ok
          /\ calls[i].crash = selected[1].crash.crash
          /\ calls[j].op = "createTask" /\ calls[j].ok
          /\ calls[j].crash = selected[2].crash.crash

\* C23: a monitor with dry_run set makes no createTask call and no
\* update_testcase_quality call over a whole run(), whatever the service
\* holds: the only calls it makes are list queries, and the crashes of the
\* service keep their quality.
C23_DryRunOnlyLists ==
    dry_run =>
        /\ \A k \in 1..Len(calls) : calls[k].op = "list"
        /\ \A k \in 1..Len(arrived) :
              crash_table[arrived[k].crash].quality = arrived[k].quality

\* a dry run returned after selecting a windows crash to queue, with a Q6
\* linux crash in the service that a run would mark NOT_REPRODUCIBLE
C23_Witness ==
    /\ dry_run
    /\ mon = "returned"
    /\ \E k \in 1..Len(selected) : selected[k].crash.os = "windows"
    /\ \E i \in 1..Len(crash_table) :
          crash_table[i].quality = 6 /\ crash_table[i].os = "linux" /\ ~crash_table[i].late

\* the findTask calls made for a namespace
FindCalls(namespace) ==
    {k \in 1..Len(calls) : calls[k].op = "findTask" /\ calls[k].namespace = namespace}

\* the findTask calls for a namespace that returned
FoundCalls(namespace) == {k \in FindCalls(namespace) : calls[k].ok}

\* C30 as stated: over any sequence of calls of image_artifact_task on one
\* monitor, findTask is called at most once per namespace.
C30_FindTaskAtMostOncePerNamespace ==
    \A namespace \in Namespaces : Cardinality(FindCalls(namespace)) <= 1

\* C30 amended: over any sequence of calls of image_artifact_task on one
\* monitor, findTask returns at most once per namespace and is not called
\* again for a namespace once it has returned for it (it is called again
\* after a lookup that raised); every call for a namespace after its
\* successful lookup returns the task id that lookup obtained; a lookup that
\* raises leaves the cache without an entry for the namespace, so the cache
\* holds exactly the namespaces of the successful lookups.
C30_OneSuccessfulLookupPerNamespace ==
    \A namespace \in Namespaces :
        /\ Cardinality(FoundCalls(namespace)) <= 1
        /\ \A f \in FoundCalls(namespace) :
              /\ \A k \in FindCalls(namespace) : k <= f
              /\ \A k \in ImageCalls :
                    (calls[k].namespace = namespace /\ k > f) =>
                        calls[k].result = calls[f].taskId
              /\ image_tasks[namespace] = calls[f].taskId
        /\ (namespace \in DOMAIN image_tasks) = (FoundCalls(namespace) # {})
        /\ \A k \in FindCalls(namespace) :
              ~calls[k].ok =>
                  /\ calls[k + 1] = [op |-> "image_artifact_task",
                                     namespace |-> namespace, result |-> None]
                  /\ \A j \in FindCalls(namespace) : j <= k => ~calls[j].ok

\* the lookup of a namespace raised, the next call looked it up again and
\* got a task id, and a third call returned that id without a lookup
C30_Witness ==
    /\ Len(calls) = 5
    /\ calls[1].op = "findTask" /\ ~calls[1].ok
    /\ calls[3].op = "findTask" /\ calls[3].ok
    /\ calls[3].namespace = calls[1].namespace
    /\ calls[5].op = "image_artifact_task"
    /\ calls[5].namespace = calls[1].namespace
    /\ calls[5].result = calls[3].taskId

====
